---- MODULE Spec2Model ----
(***************************************************************************)
(* The synchronization engine of the RFCP study tracker: class SyncManager *)
(* of src/js/sync-manager.js (GitHub-Gist backed sync of a progress        *)
(* snapshot), the remote gist store it talks to, and the pure function     *)
(* mergeProgress.                                                          *)
(***************************************************************************)
EXTENDS Integers, Sequences, FiniteSets, TLC

(***************************************************************************)
(* Bounds of the model.                                                    *)
(***************************************************************************)
\* longest completedIds list drawn as an input of mergeProgress
MaxLen == 2
\* sync() invocations per run
MaxCalls == 2
\* gist ids the store can hand out
MaxGists == 2
\* last instant of the clock
MaxTime == 1

(***************************************************************************)
(* Values.                                                                 *)
(***************************************************************************)
\* objective identifiers (the strings of completedIds)
Ids == {"A", "B"}

\* completion dates as the strings the program stores.  The second string
\* writes the instant of the first one the way Date.toISOString() does.
DateStrings == {"2025-01-01", "2025-01-01T00:00:00.000Z", "2025-01-05"}

\* a key that an object does not have (obj[key] is undefined)
NoDate == "undefined"

\* new Date(s).getTime(), in days since 2024-12-31
DateValue(s) ==
    CASE s = "2025-01-01" -> 1
      [] s = "2025-01-01T00:00:00.000Z" -> 1
      [] s = "2025-01-05" -> 5

\* a timestamp that is null
NoTime == -1

\* no entry of completionDates
NoDates == [i \in Ids |-> NoDate]

\* null / undefined where a snapshot is expected
Absent ==
    [isObject |-> FALSE, hasIds |-> FALSE, completedIds |-> <<>>,
     hasDates |-> FALSE, completionDates |-> NoDates, lastModified |-> NoTime]

\* the object { completedIds: ids, completionDates: dates }
Snapshot(ids, dates) ==
    [isObject |-> TRUE, hasIds |-> TRUE, completedIds |-> ids,
     hasDates |-> TRUE, completionDates |-> dates, lastModified |-> NoTime]

\* { completedIds: [], completionDates: {} }
EmptySnapshot == Snapshot(<<>>, NoDates)

\* the keys of a completionDates object
DatedIds(dates) == {i \in Ids : dates[i] # NoDate}

\* the ids of a list, as a set
IdSet(ids) == {ids[k] : k \in 1..Len(ids)}

\* a list holds no id twice
NoDuplicates(ids) == \A j, k \in 1..Len(ids) : ids[j] = ids[k] => j = k

(***************************************************************************)
(* mergeProgress                                                           *)
(***************************************************************************)
\* [...new Set(list)]: the first occurrence of every element, in order
RECURSIVE Dedupe(_)
Dedupe(list) ==
    IF list = <<>> THEN <<>>
    ELSE LET init == Dedupe(SubSeq(list, 1, Len(list) - 1))
             last == list[Len(list)]
         IN  IF last \in IdSet(init) THEN init ELSE Append(init, last)

\* allCompletedIds built without the Set
ConcatIds(local, remote) == local.completedIds \o remote.completedIds

\* allCompletedIds made of the local list alone
LocalIdsOnly(local, remote) == Dedupe(local.completedIds)

\* allCompletedIds
AllCompletedIds(local, remote) ==
    Dedupe(local.completedIds \o remote.completedIds)

\* the test of the forEach that lets every local date win
LocalDateWinsAlways(mine, theirs) == TRUE

\* the test of the forEach: !mergedDates[id] || new Date(date) > new Date(mergedDates[id])
LocalDateWins(mine, theirs) ==
    theirs = NoDate \/ DateValue(mine) > DateValue(theirs)

\* mergedDates that starts from an empty object instead of the remote dates
LocalDatesOnly(local, remote) == local.completionDates

\* mergedDates after the forEach over Object.entries(local.completionDates)
MergedDates(local, remote) ==
    LET start == IF remote.hasDates THEN remote.completionDates ELSE NoDates
    IN  [i \in Ids |->
            IF /\ local.completionDates[i] # NoDate
               /\ LocalDateWins(local.completionDates[i], start[i])
            THEN local.completionDates[i]
            ELSE start[i]]

\* Object.entries(undefined) throws a TypeError
mergeThrows(local, remote) ==
    /\ remote.isObject /\ remote.hasIds
    /\ local.isObject /\ local.hasIds
    /\ ~local.hasDates

\* the early return for an absent remote that answers with an empty snapshot
RemoteAbsentGivesEmpty(local) == EmptySnapshot

\* if (!remote || !remote.completedIds) return local;
RemoteAbsentResult(local) == local

\* the value mergeProgress returns (where it does not throw)
mergeProgress(local, remote) ==
    IF ~remote.isObject \/ ~remote.hasIds THEN RemoteAbsentResult(local)
    ELSE IF ~local.isObject \/ ~local.hasIds THEN remote
    ELSE Snapshot(AllCompletedIds(local, remote), MergedDates(local, remote))

(***************************************************************************)
(* The state.                                                              *)
(***************************************************************************)
VARIABLES
    mgr,      \* per device: the fields of its SyncManager
    ls,       \* per device: its localStorage
    gists,    \* the remote store: every gist of the user that carries the app's tag
    now,      \* the clock (new Date())
    call,     \* per invocation: where the async call stands, and its locals
    outcome,  \* what the last step of a call handed to the caller of sync()
    mLocal,   \* mergeProgress applied on its own: the argument local
    mRemote,  \*   the argument remote
    mStage,   \*   "input", "merged" (mResult is set), "again" (mAgain is set)
    mResult,  \*   mergeProgress(mLocal, mRemote)
    mAgain    \*   mergeProgress(mResult, mResult)

vars == <<mgr, ls, gists, now, call, outcome, mLocal, mRemote, mStage, mResult, mAgain>>
syncVars == <<mgr, ls, gists, now, call, outcome>>
mergeVars == <<mLocal, mRemote, mStage, mResult, mAgain>>

Devices == {"d1", "d2"}
Calls == 1..MaxCalls
GistIds == 1..MaxGists
\* this.gistId === null
NoGist == 0
\* this.token === null
NoToken == "null"
Token == "ghp_token"
\* a token GitHub does not accept
BadToken == "ghp_revoked"
\* the argument of setupSync that is empty after trim()
BlankToken == "  "

(***************************************************************************)
(* The gist store and its responses.                                       *)
(***************************************************************************)
\* JSON.stringify of a snapshot object; a text that is no JSON has valid = FALSE
JSONstringify(obj) == [valid |-> TRUE, obj |-> obj]
\* JSON.parse of a valid text
JSONparse(text) == text.obj
\* content that does not parse
Garbage == [valid |-> FALSE, obj |-> Absent]

\* { ...data, lastModified: new Date().toISOString() }
dataWithTimestamp(data, t) ==
    [data EXCEPT !.isObject = TRUE, !.lastModified = t]

\* a snapshot without its lastModified stamp
Unstamped(data) == [data EXCEPT !.lastModified = NoTime]

\* initialData of createGist
initialData(t) == dataWithTimestamp(EmptySnapshot, t)

NoGistEntry == [state |-> "free", content |-> Garbage]
IsLive(g) == g \in GistIds /\ gists[g].state = "live"
LiveGists == {g \in GistIds : gists[g].state = "live"}
FreeGists == {g \in GistIds : gists[g].state = "free"}
\* the id the store gives the next gist
NextGistId == CHOOSE g \in FreeGists : \A h \in FreeGists : g <= h

\* forms of an error body: "json-rate-limit" (JSON whose message names the rate
\* limit), "json" (other JSON), "empty" (no body), "text" (no JSON)
\* values of the x-ratelimit-reset header at time t (NoTime: no header)
ResetHeaders(t) == {NoTime} \cup {u \in 1..MaxTime : u > t}

\* a request that fails: fetch() rejects, or a non-2xx response
NetworkError == [kind |-> "neterr", status |-> 0, body |-> "empty", reset |-> NoTime]
HttpError(status, body, reset) ==
    [kind |-> "http", status |-> status, body |-> body, reset |-> reset]
\* the failures a request can meet whatever the store holds: no connection, a
\* server error, 403 (forbidden, or the rate limit), 429 (with GitHub's JSON
\* message, without body, or with a proxy's text)
Failures(t) ==
    {NetworkError, HttpError(500, "json", NoTime)} \cup
    {HttpError(403, b, r) : b \in {"json-rate-limit", "json"}, r \in ResetHeaders(t)} \cup
    {HttpError(429, b, r) : b \in {"json-rate-limit", "empty", "text"},
                            r \in ResetHeaders(t)}
NotFound == HttpError(404, "json", NoTime)
Conflict == HttpError(409, "json", NoTime)
\* the answer to a request whose token GitHub does not accept
Unauthorized == HttpError(401, "json", NoTime)
\* a 2xx response
Ok == [kind |-> "ok", status |-> 200, body |-> "json", reset |-> NoTime]

(***************************************************************************)
(* SyncManager: constructor and rate-limit bookkeeping.                    *)
(***************************************************************************)
\* Date.prototype.toISOString(): the string that writes the instant t
toISOString(t) == [iso |-> t]

\* null where an ISO string is expected
NoISO == [iso |-> NoTime]

\* new Date(isoString): the instant that the string writes
NewDate(str) == str.iso

EmptyStorage ==
    [rfcp_gist_id |-> NoGist, rfcp_github_token |-> NoToken,
     rfcp_rate_limited_until |-> NoISO, rfcpProgressv2 |-> Garbage]

\* new SyncManager()
Constructor(s) ==
    [gistId |-> s.rfcp_gist_id,
     token |-> s.rfcp_github_token,
     syncEnabled |-> s.rfcp_github_token # NoToken,
     lastSync |-> NoTime,
     syncInProgress |-> FALSE,
     rateLimitedUntil |-> IF s.rfcp_rate_limited_until # NoISO
                          THEN NewDate(s.rfcp_rate_limited_until) ELSE NoTime]

\* _parseRateLimitInfo(response, bodyText)
ParseRateLimitInfo(r) ==
    IF r.body = "text" THEN [isRateLimit |-> FALSE, resetDate |-> NoTime]
    ELSE [isRateLimit |-> \/ r.body = "json-rate-limit"
                          \/ r.status = 429
                          \/ (r.status = 403 /\ r.body = "json-rate-limit"),
          resetDate |-> r.reset]

\* getStatus() with inProgress left at false
getStatusNeverInProgress(m) ==
    [enabled |-> m.syncEnabled, lastSync |-> m.lastSync, gistId |-> m.gistId,
     inProgress |-> FALSE,
     rateLimitedUntil |-> IF m.rateLimitedUntil # NoTime
                          THEN toISOString(m.rateLimitedUntil) ELSE NoISO]

\* getStatus()
getStatus(m) ==
    [enabled |-> m.syncEnabled, lastSync |-> m.lastSync, gistId |-> m.gistId,
     inProgress |-> m.syncInProgress,
     rateLimitedUntil |-> IF m.rateLimitedUntil # NoTime
                          THEN toISOString(m.rateLimitedUntil) ELSE NoISO]

\* the controls of the sync-settings page, none of them usable
NoButtons ==
    [enable |-> FALSE, forceUpload |-> FALSE, forceDownload |-> FALSE,
     disable |-> FALSE]

\* no getStatus() was observed
NoStatus ==
    [enabled |-> FALSE, lastSync |-> NoTime, gistId |-> NoGist,
     inProgress |-> FALSE, rateLimitedUntil |-> NoISO]

\* manager and storage, as one value
MS(m, s) == [m |-> m, s |-> s]

\* _setRateLimited(resetDate) that assigns resetDate whatever it is
SetRateLimitedOverwrites(m, s, resetDate) ==
    MS([m EXCEPT !.rateLimitedUntil = resetDate],
       IF resetDate # NoTime
       THEN [s EXCEPT !.rfcp_rate_limited_until = toISOString(resetDate)]
       ELSE s)

\* _setRateLimited(resetDate)
SetRateLimited(m, s, resetDate) ==
    LET until == IF resetDate # NoTime THEN resetDate ELSE m.rateLimitedUntil
    IN  MS([m EXCEPT !.rateLimitedUntil = until],
           IF until # NoTime
           THEN [s EXCEPT !.rfcp_rate_limited_until = toISOString(until)] ELSE s)

\* _clearRateLimit() without the removeItem
ClearRateLimitInMemoryOnly(m, s) ==
    MS([m EXCEPT !.rateLimitedUntil = NoTime], s)

\* _clearRateLimit()
ClearRateLimit(m, s) ==
    MS([m EXCEPT !.rateLimitedUntil = NoTime],
       [s EXCEPT !.rfcp_rate_limited_until = NoISO])

(***************************************************************************)
(* An invocation of an async method, between its awaits.                   *)
(***************************************************************************)
\* a call that was not made yet
IdleCall ==
    [op |-> "none", dev |-> "d1", pc |-> "idle", ret |-> "none",
     localData |-> Absent, remoteData |-> Absent, mergedData |-> Absent,
     body |-> Absent, initial |-> NoTime, target |-> NoGist, passed |-> FALSE,
     auth |-> NoToken, app |-> "none"]

\* the step received no response
NoResponse == "none"

\* no response was looked at
NoReply == [kind |-> "none", status |-> 0, body |-> "empty", reset |-> NoTime]

\* what is told apart of a response: it is ok, it has one of the statuses the
\* code or the store singles out (401, 404, 409), or it failed otherwise
ResponseClass(r) ==
    CASE r.kind = "ok" -> "ok"
      [] r.kind = "http" /\ r.status = 401 -> "401"
      [] r.kind = "http" /\ r.status = 404 -> "404"
      [] r.kind = "http" /\ r.status = 409 -> "409"
      [] OTHER -> "failed"

\* the step left its call awaiting: the caller got nothing yet
NoOutcome ==
    [call |-> 0, localData |-> Absent, how |-> "none", value |-> Absent,
     error |-> "", passed |-> FALSE, wrapped |-> "", resp |-> NoResponse,
     app |-> "none", appHow |-> "none", appValue |-> Absent,
     dev |-> "none", status |-> NoStatus, response |-> NoReply,
     ui |-> NoButtons, at |-> NoTime]

\* the places where a call awaits a response
Awaiting ==
    {"ege_verify", "ege_list", "cg_list", "cg_post",
     "frp_get", "frp_get2", "srp_patch", "srp_patch2"}

\* what a step leaves: the manager, its storage, the call and, if the call
\* ended in the step, what its caller gets
Out(m, s, cr) == [m |-> m, s |-> s, c |-> cr, o |-> NoOutcome]

\* await fetch(...): the request leaves for the gist target (NoGist: no gist is
\* addressed) and the call waits at pc
IssueRequest(cr, pc, target) == [cr EXCEPT !.pc = pc, !.target = target]

\* the call is over and its locals are gone
Ended(cr) ==
    [IdleCall EXCEPT !.op = cr.op, !.dev = cr.dev, !.pc = "done", !.app = cr.app]

\* return value: the promise of the call resolves
Return(m, s, cr, value) ==
    [m |-> m, s |-> s, c |-> Ended(cr),
     o |-> [NoOutcome EXCEPT !.localData = cr.localData, !.how = "returned",
                             !.value = value, !.passed = cr.passed]]

\* the catch block of sync() that forgets the flag
SyncCatchKeepsFlag(m) == m

\* the catch block of sync(): this.syncInProgress = false
SyncCatch(m) == [m EXCEPT !.syncInProgress = FALSE]

\* an error leaves the call without passing a catch block
Raise(m, s, cr, err) ==
    [m |-> m, s |-> s, c |-> Ended(cr),
     o |-> [NoOutcome EXCEPT !.localData = cr.localData, !.how = "threw",
                             !.error = err, !.passed = cr.passed]]

\* disable() that forgets to drop the cached gist id
disableKeepsGistId(m) == [m EXCEPT !.syncEnabled = FALSE, !.token = NoToken]

\* disable(): the fields of the manager
disable(m) == [m EXCEPT !.syncEnabled = FALSE, !.token = NoToken, !.gistId = NoGist]

\* disable() that leaves the token in localStorage
disableStorageKeepsToken(s) == [s EXCEPT !.rfcp_gist_id = NoGist]

\* disable(): localStorage.removeItem of the token and of the gist id
disableStorage(s) ==
    [s EXCEPT !.rfcp_github_token = NoToken, !.rfcp_gist_id = NoGist]

\* the catch block of setupSync: what the error thrown anew is wrapped in
SetupCatchWrap == "Erro ao configurar sincronizacao"

\* an error leaves the method the call invoked: through the catch block of
\* sync() or of setupSync(), or straight to the caller
Throw(m, s, cr, err) ==
    [m |-> CASE cr.op = "sync" -> SyncCatch(m)
             [] cr.op = "setupSync" -> disable(m)
             [] OTHER -> m,
     s |-> IF cr.op = "setupSync" THEN disableStorage(s) ELSE s,
     c |-> Ended(cr),
     o |-> [NoOutcome EXCEPT !.localData = cr.localData, !.how = "threw",
                             !.error = err, !.passed = cr.passed,
                             !.wrapped = IF cr.op = "setupSync"
                                         THEN SetupCatchWrap ELSE ""]]

\* ensureGistExists(), up to its first await; ret is where its caller resumes
ensureGistExists(m, s, cr, ret) ==
    IF m.gistId # NoGist
    THEN Out(m, s, IssueRequest([cr EXCEPT !.ret = ret], "ege_verify", m.gistId))
    ELSE Out(m, s, IssueRequest([cr EXCEPT !.ret = ret], "ege_list", NoGist))

\* saveRemoteProgress(data), up to its first await
saveRemoteProgress(m, s, cr, data, t) ==
    IF m.gistId = NoGist THEN Throw(m, s, cr, "Gist ID nao configurado")
    ELSE Out(m, s, IssueRequest([cr EXCEPT !.body = dataWithTimestamp(data, t)],
                                "srp_patch", m.gistId))

\* fetchRemoteProgress(), up to its first await
fetchRemoteProgress(m, s, cr) ==
    IF m.gistId = NoGist THEN ensureGistExists(m, s, cr, "frp_start")
    ELSE Out(m, s, IssueRequest(cr, "frp_get", m.gistId))

\* ensureGistExists() returned to a saveRemoteProgress() that starts anew
\* instead of repeating its PATCH once
EnsureReturnStartsAnew(m, s, cr) ==
    CASE cr.ret = "frp_start" ->
            IF m.gistId = NoGist THEN Throw(m, s, cr, "Gist ID nao configurado")
            ELSE Out(m, s, IssueRequest(cr, "frp_get", m.gistId))
      [] cr.ret = "frp_retry" -> Out(m, s, IssueRequest(cr, "frp_get2", m.gistId))
      [] cr.ret = "srp_retry" -> Out(m, s, IssueRequest(cr, "srp_patch", m.gistId))
      [] cr.ret = "setup" -> Return([m EXCEPT !.syncEnabled = TRUE], s, cr, Absent)

\* ensureGistExists() returned: its caller resumes
EnsureReturn(m, s, cr) ==
    CASE cr.ret = "frp_start" ->
            IF m.gistId = NoGist THEN Throw(m, s, cr, "Gist ID nao configurado")
            ELSE Out(m, s, IssueRequest(cr, "frp_get", m.gistId))
      [] cr.ret = "frp_retry" -> Out(m, s, IssueRequest(cr, "frp_get2", m.gistId))
      [] cr.ret = "srp_retry" -> Out(m, s, IssueRequest(cr, "srp_patch2", m.gistId))
      [] cr.ret = "setup" -> Return([m EXCEPT !.syncEnabled = TRUE], s, cr, Absent)

\* ensureGistExists() that keeps the id it found in memory only
EnsureFoundInMemoryOnly(m, s, cr, id) == EnsureReturn([m EXCEPT !.gistId = id], s, cr)

\* ensureGistExists(): this.gistId = id; localStorage.setItem('rfcp_gist_id', id); return
EnsureFound(m, s, cr, id) ==
    EnsureReturn([m EXCEPT !.gistId = id], [s EXCEPT !.rfcp_gist_id = id], cr)

\* the early return of sync() that returns nothing
EarlyReturnsNothing(localData) == Absent

\* the early return of sync(): return localData
EarlyReturnValue(localData) == localData

\* the guard of sync() that looks at syncEnabled only
SyncGuardEnabledOnly(m) == ~m.syncEnabled

\* the guard of sync(): !this.syncEnabled || this.syncInProgress
SyncGuard(m) == ~m.syncEnabled \/ m.syncInProgress

\* what sync() hands back of the merge when it returns the fetched data instead
SyncReturnsRemote(merged, remote) == remote

\* what sync() returns after the write: mergedData
SyncReturnValue(merged, remote) == merged

\* what sync() hands to saveRemoteProgress: mergedData
SyncSaveArgument(merged, local) == merged

\* a forceSyncFromRemote() that hands the fetched data back without its stamp
ForceReturnsUnstamped(remoteData) == Unstamped(remoteData)

\* forceSyncFromRemote(): return remoteData
ForceRemoteReturnValue(remoteData) == remoteData

\* fetchRemoteProgress() returned the parsed content text: its caller resumes
FetchReturn(m, s, cr, text, t) ==
    IF ~text.valid THEN Throw(m, s, cr, "SyntaxError")
    ELSE IF cr.op = "forceSyncFromRemote"
    THEN Return([m EXCEPT !.lastSync = t], s,
                [cr EXCEPT !.remoteData = JSONparse(text)],
                ForceRemoteReturnValue(JSONparse(text)))
    ELSE LET remoteData == JSONparse(text)
             cr1 == [cr EXCEPT !.remoteData = remoteData]
         IN  IF mergeThrows(cr.localData, remoteData)
             THEN Throw(m, s, cr1, "TypeError")
             ELSE LET mergedData == mergeProgress(cr.localData, remoteData)
                  IN  saveRemoteProgress(m, s, [cr1 EXCEPT !.mergedData = mergedData],
                                         SyncSaveArgument(mergedData, cr.localData), t)

\* saveRemoteProgress() returned: sync() records lastSync and returns mergedData
SaveReturn(m, s, cr, t) ==
    IF cr.op = "saveRemoteProgress" THEN Return(m, s, cr, Absent)
    ELSE IF cr.op = "forceSyncFromLocal"
    THEN Return([m EXCEPT !.lastSync = t], s, cr, Absent)
    ELSE Return([m EXCEPT !.lastSync = t, !.syncInProgress = FALSE], s, cr,
                SyncReturnValue(cr.mergedData, cr.remoteData))

\* a failed response, as every request but the first of ensureGistExists treats
\* it: record the rate limit if the response signals one
AfterFailure(m, s, r) ==
    IF r.kind = "http" /\ ParseRateLimitInfo(r).isRateLimit
    THEN SetRateLimited(m, s, ParseRateLimitInfo(r).resetDate)
    ELSE MS(m, s)

\* the error a failed response is turned into
ErrorOf(r, what) ==
    IF r.kind = "neterr" THEN "NetworkError"
    ELSE IF ParseRateLimitInfo(r).isRateLimit THEN "Rate limit excedido"
    ELSE what

(***************************************************************************)
(* The steps: an invocation, and the arrival of each awaited response.     *)
(***************************************************************************)
\* the step received the response r
Got(r, out) == [out EXCEPT !.o.resp = ResponseClass(r)]

\* { completedIds, completionDates }: the object made of these two properties
\* of x (a property that is undefined is not written by JSON.stringify)
Fields(x) ==
    [isObject |-> TRUE, hasIds |-> x.hasIds, completedIds |-> x.completedIds,
     hasDates |-> x.hasDates, completionDates |-> x.completionDates,
     lastModified |-> NoTime]

\* the handler of the application is over: what it handed to the user action
\* that triggered it ("returned" with a value, or "threw")
AppEnds(out, app, how, value) ==
    [out EXCEPT !.o.app = app, !.o.appHow = how, !.o.appValue = value]

\* a loadProgress that returns the synced data and leaves the stored copy of
\* the device as it was
SaveSyncedKeepsStored(out, t) ==
    [out EXCEPT !.o.app = "loadProgress", !.o.appHow = "returned",
                !.o.appValue = out.o.value]

\* saveProgress of main.js, called by loadProgress with the synced data:
\* localStorage.setItem, then saveRemoteProgress(data) inside try/catch
SaveSynced(out, t) ==
    LET synced == out.o.value
        data == Fields(synced)
        s1 == [out.s EXCEPT !.rfcpProgressv2 = JSONstringify(data)]
        cr1 == [IdleCall EXCEPT !.op = "saveRemoteProgress", !.dev = out.c.dev,
                                !.app = "saveProgress", !.localData = data,
                                !.passed = TRUE]
        o1 == [out.o EXCEPT !.app = "loadProgress", !.appHow = "returned",
                            !.appValue = synced]
    IN  IF out.m.syncEnabled
        THEN [saveRemoteProgress(out.m, s1, cr1, data, t) EXCEPT !.o = o1]
        ELSE [out EXCEPT !.s = s1, !.o = o1]

\* a catch block of a handler that throws the error of the sync anew
Rethrown(out, app, value) == AppEnds(out, app, "threw", value)

\* the catch block around the sync in a handler: the error is logged and shown,
\* and the handler goes on to return value
Caught(out, app, value) == AppEnds(out, app, "returned", value)

\* the rest of the handler that awaited the call, once the call is over
AppContinue(app, out, t) ==
    IF out.c.pc # "done" \/ app = "none" THEN out
    ELSE CASE app = "loadProgress" ->
                 IF out.o.how = "threw" THEN Caught(out, app, out.o.localData)
                 ELSE IF out.o.value.isObject THEN SaveSynced(out, t)
                 ELSE Caught(out, app, out.o.localData)
           [] app = "saveProgress" ->
                 IF out.o.how = "threw" THEN Caught(out, app, Absent)
                 ELSE AppEnds(out, app, "returned", Absent)
           [] app = "Tracker.loadProgress" ->
                 IF out.o.how = "threw" THEN Caught(out, app, out.o.localData)
                 ELSE IF out.o.value.isObject
                 THEN AppEnds(out, app, "returned", out.o.value)
                 ELSE AppEnds(out, app, "returned", out.o.localData)
           [] app = "Tracker.saveProgress" ->
                 IF out.o.how = "threw" THEN Caught(out, app, Absent)
                 ELSE AppEnds(out, app, "returned", Absent)

\* a step of a call leaves the manager and storage of its device, and the call;
\* a request issued in the step carries the token the manager holds
Commit(c, out0) ==
    LET out == AppContinue(call[c].app, out0, now) IN
    /\ mgr' = [mgr EXCEPT ![out.c.dev] = out.m]
    /\ ls' = [ls EXCEPT ![out.c.dev] = out.s]
    /\ call' = [call EXCEPT ![c] =
                  [out.c EXCEPT !.auth = IF out.c.pc \in Awaiting
                                         THEN out.m.token ELSE NoToken]]
    /\ outcome' = IF out.o.how = "none" THEN out.o ELSE [out.o EXCEPT !.call = c]

\* calls are made in the order of their numbers
MayInvoke(c) ==
    /\ call[c].pc = "idle"
    /\ IF c = 1 THEN TRUE ELSE call[c - 1].pc # "idle"

\* sync(localData) is invoked on device d and runs up to its first await
SyncCall(c, d, localData) ==
    /\ MayInvoke(c)
    /\ LET m == mgr[d]
           cr == [IdleCall EXCEPT !.op = "sync", !.dev = d, !.localData = localData]
       IN  IF SyncGuard(m)
           THEN Commit(c, Return(m, ls[d], cr, EarlyReturnValue(localData)))
           ELSE Commit(c, fetchRemoteProgress([m EXCEPT !.syncInProgress = TRUE], ls[d],
                                              [cr EXCEPT !.passed = TRUE]))
    /\ UNCHANGED <<gists, now, mergeVars>>

\* createGist(), up to its first await: initialData is stamped, the gists are listed
createGist(m, s, cr, t) ==
    Out(m, s, IssueRequest([cr EXCEPT !.initial = t], "cg_list", NoGist))

\* GitHub accepts the token a request carries
Authorized(cr) == cr.auth = Token

\* what the code reads of a failed response: whether fetch() rejected, whether
\* the response signals the rate limit and the reset time it then carries
Seen(r) ==
    [kind |-> r.kind, class |-> ResponseClass(r),
     limit |-> r.kind = "http" /\ ParseRateLimitInfo(r).isRateLimit,
     reset |-> IF r.kind = "http" /\ ParseRateLimitInfo(r).isRateLimit
               THEN ParseRateLimitInfo(r).resetDate ELSE NoTime]

\* one response for each way the code can tell the responses of R apart
ToldApart(R) == {r \in R : r = CHOOSE q \in R : Seen(q) = Seen(r)}

\* the failures the request of a call can meet: those of every request, and 401
\* when its token is not accepted
FailuresOf(cr, t) ==
    ToldApart(Failures(t)) \cup (IF Authorized(cr) THEN {} ELSE {Unauthorized})

\* the answer to a request that addresses a gist the store does not hold
Missing(cr) == IF Authorized(cr) /\ ~IsLive(cr.target) THEN {NotFound} ELSE {}

\* String(null): the text localStorage.setItem stores for a value that is null
NullText == -1

\* localStorage.setItem('rfcp_gist_id', this.gistId): the text that is stored
StoredId(id) == IF id = NoGist THEN NullText ELSE id

\* ensureGistExists: the response to the GET that verifies the stored gistId
EgeVerifyResp(c) ==
    LET cr == call[c]  m == mgr[cr.dev]  s == ls[cr.dev] IN
    /\ cr.pc = "ege_verify"
    /\ \/ /\ Authorized(cr) /\ IsLive(cr.target)
          /\ Commit(c, Got(Ok, EnsureReturn(m, [s EXCEPT !.rfcp_gist_id = StoredId(m.gistId)], cr)))
       \/ \E r \in FailuresOf(cr, now) \cup Missing(cr) :
             Commit(c, Got(r, Out([m EXCEPT !.gistId = NoGist],
                                  [s EXCEPT !.rfcp_gist_id = NoGist],
                                  IssueRequest(cr, "ege_list", NoGist))))
    /\ UNCHANGED <<gists, now, mergeVars>>

\* ensureGistExists: the response to fetchGists()
EgeListResp(c) ==
    LET cr == call[c]  m == mgr[cr.dev]  s == ls[cr.dev] IN
    /\ cr.pc = "ege_list"
    /\ \/ /\ Authorized(cr)
          /\ LET ms == ClearRateLimit(m, s) IN
             IF LiveGists # {}
             THEN \E g \in LiveGists : Commit(c, Got(Ok, EnsureFound(ms.m, ms.s, cr, g)))
             ELSE Commit(c, Got(Ok, createGist(ms.m, ms.s, cr, now)))
       \/ \E r \in FailuresOf(cr, now) :
             LET ms == AfterFailure(m, s, r) IN
             Commit(c, Got(r, createGist(ms.m, ms.s, cr, now)))
    /\ UNCHANGED <<gists, now, mergeVars>>

\* createGist without its look at the listing: no gist is ever found
existingGistNeverFound(listed) == {}

\* createGist: gists.find(...) over the listing, the tagged gists it may return
existingGist(listed) == listed

\* createGist: the response to its own fetchGists()
CgListResp(c) ==
    LET cr == call[c]  m == mgr[cr.dev]  s == ls[cr.dev] IN
    /\ cr.pc = "cg_list"
    /\ \/ /\ Authorized(cr)
          /\ LET ms == ClearRateLimit(m, s) IN
             IF existingGist(LiveGists) # {}
             THEN \E g \in existingGist(LiveGists) :
                     Commit(c, Got(Ok, EnsureFound(ms.m, ms.s, cr, g)))
             ELSE Commit(c, Got(Ok, Out(ms.m, ms.s, IssueRequest(cr, "cg_post", NoGist))))
       \/ \E r \in FailuresOf(cr, now) :
             LET ms == AfterFailure(m, s, r) IN
             Commit(c, Got(r, Out(ms.m, ms.s, IssueRequest(cr, "cg_post", NoGist))))
    /\ UNCHANGED <<gists, now, mergeVars>>

\* createGist: the response to the POST
CgPostResp(c) ==
    LET cr == call[c]  m == mgr[cr.dev]  s == ls[cr.dev] IN
    /\ cr.pc = "cg_post"
    /\ \/ /\ Authorized(cr) /\ FreeGists # {}
          /\ LET ms == ClearRateLimit(m, s) IN
             /\ gists' = [gists EXCEPT ![NextGistId] =
                            [state |-> "live",
                             content |-> JSONstringify(initialData(cr.initial))]]
             /\ Commit(c, Got(Ok, EnsureFound(ms.m, ms.s, cr, NextGistId)))
       \/ /\ \E r \in FailuresOf(cr, now) :
                LET ms == AfterFailure(m, s, r) IN
                Commit(c, Got(r, Throw(ms.m, ms.s, cr, ErrorOf(r, "Erro ao criar gist"))))
          /\ UNCHANGED gists
    /\ UNCHANGED <<now, mergeVars>>

\* fetchRemoteProgress: the response to the first GET of the gist
FrpGetResp(c) ==
    LET cr == call[c]  m == mgr[cr.dev]  s == ls[cr.dev] IN
    /\ cr.pc = "frp_get"
    /\ \/ /\ Authorized(cr) /\ IsLive(cr.target)
          /\ LET ms == ClearRateLimit(m, s) IN
             Commit(c, Got(Ok, FetchReturn(ms.m, ms.s, cr, gists[cr.target].content, now)))
       \/ \E r \in Missing(cr) :
             Commit(c, Got(r, ensureGistExists(m, s, cr, "frp_retry")))
       \/ \E r \in FailuresOf(cr, now) :
             LET ms == AfterFailure(m, s, r) IN
             Commit(c, Got(r, Throw(ms.m, ms.s, cr,
                                    ErrorOf(r, "Erro ao buscar progresso remoto"))))
    /\ UNCHANGED <<gists, now, mergeVars>>

\* fetchRemoteProgress: the response to the GET repeated after a 404
FrpGet2Resp(c) ==
    LET cr == call[c]  m == mgr[cr.dev]  s == ls[cr.dev] IN
    /\ cr.pc = "frp_get2"
    /\ \/ /\ Authorized(cr) /\ IsLive(cr.target)
          /\ LET ms == ClearRateLimit(m, s) IN
             Commit(c, Got(Ok, FetchReturn(ms.m, ms.s, cr, gists[cr.target].content, now)))
       \/ \E r \in FailuresOf(cr, now) \cup Missing(cr) :
             Commit(c, Got(r, Throw(m, s, cr,
                                    IF r.kind = "neterr" THEN "NetworkError"
                                    ELSE "Erro ao buscar progresso remoto (apos tentativa)")))
    /\ UNCHANGED <<gists, now, mergeVars>>

\* a store that merges the body of a PATCH into the content it holds
PatchedByMerge(cr) ==
    [gists EXCEPT ![cr.target].content =
        JSONstringify(dataWithTimestamp(
            mergeProgress(cr.body, JSONparse(gists[cr.target].content)),
            cr.body.lastModified))]

\* the store accepts a PATCH: the content of the gist is the body
Patched(cr) ==
    [gists EXCEPT ![cr.target].content = JSONstringify(cr.body)]

\* the statuses of a failed write that saveRemoteProgress() answers by a retry,
\* were it to retry after every failure
RetriesEveryStatus(status) == TRUE

\* response.status === 404 || response.status === 409
RetriesWrite(status) == status = 404 \/ status = 409

\* the answers to a PATCH that name the gist: it is missing, or the write conflicts
Refused(cr) ==
    IF ~Authorized(cr) THEN {}
    ELSE IF IsLive(cr.target) THEN {Conflict} ELSE {NotFound}

\* saveRemoteProgress: the response to the first PATCH
SrpPatchResp(c) ==
    LET cr == call[c]  m == mgr[cr.dev]  s == ls[cr.dev] IN
    /\ cr.pc = "srp_patch"
    /\ \/ /\ Authorized(cr) /\ IsLive(cr.target)
          /\ gists' = Patched(cr)
          /\ LET ms == ClearRateLimit(m, s) IN
             Commit(c, Got(Ok, SaveReturn(ms.m, ms.s, cr, now)))
       \/ /\ \E r \in FailuresOf(cr, now) \cup Refused(cr) :
                LET ms == AfterFailure(m, s, r) IN
                IF r.kind = "http" /\ ~ParseRateLimitInfo(r).isRateLimit
                                   /\ RetriesWrite(r.status)
                THEN Commit(c, Got(r, ensureGistExists(m, s, cr, "srp_retry")))
                ELSE Commit(c, Got(r, Throw(ms.m, ms.s, cr,
                                            ErrorOf(r, "Erro ao salvar progresso remoto"))))
          /\ UNCHANGED gists
    /\ UNCHANGED <<now, mergeVars>>

\* saveRemoteProgress: the response to the PATCH repeated after a 404 or 409
SrpPatch2Resp(c) ==
    LET cr == call[c]  m == mgr[cr.dev]  s == ls[cr.dev] IN
    /\ cr.pc = "srp_patch2"
    /\ \/ /\ Authorized(cr) /\ IsLive(cr.target)
          /\ gists' = Patched(cr)
          /\ LET ms == ClearRateLimit(m, s) IN
             Commit(c, Got(Ok, SaveReturn(ms.m, ms.s, cr, now)))
       \/ /\ \E r \in FailuresOf(cr, now) \cup Refused(cr) :
                LET ms == AfterFailure(m, s, r) IN
                Commit(c, Got(r, Throw(ms.m, ms.s, cr,
                                       ErrorOf(r, "Erro ao salvar progresso remoto (retry)"))))
          /\ UNCHANGED gists
    /\ UNCHANGED <<now, mergeVars>>

\* setupSync(token) is invoked on device d and runs up to its first await
SetupCall(c, d, token) ==
    /\ MayInvoke(c)
    /\ LET m == mgr[d]
           s == ls[d]
           cr == [IdleCall EXCEPT !.op = "setupSync", !.dev = d]
       IN  IF token = BlankToken
           THEN Commit(c, Raise(m, s, cr, "Token do GitHub e obrigatorio"))
           ELSE Commit(c, ensureGistExists([m EXCEPT !.token = token],
                                           [s EXCEPT !.rfcp_github_token = token],
                                           [cr EXCEPT !.passed = TRUE], "setup"))
    /\ UNCHANGED <<gists, now, mergeVars>>

\* forced transfers that do not look at syncEnabled
ForceGuardMissing(m) == FALSE

\* the guard of forceSyncFromLocal() and forceSyncFromRemote(): !this.syncEnabled
ForceGuard(m) == ~m.syncEnabled

\* forceSyncFromLocal(localData) is invoked on device d and runs up to its first await
ForceLocalCall(c, d, localData) ==
    /\ MayInvoke(c)
    /\ LET m == mgr[d]
           s == ls[d]
           cr == [IdleCall EXCEPT !.op = "forceSyncFromLocal", !.dev = d,
                                  !.localData = localData]
       IN  IF ForceGuard(m)
           THEN Commit(c, Raise(m, s, cr, "Sincronizacao nao esta habilitada"))
           ELSE Commit(c, saveRemoteProgress(m, s, [cr EXCEPT !.passed = TRUE],
                                             localData, now))
    /\ UNCHANGED <<gists, now, mergeVars>>

\* forceSyncFromRemote() is invoked on device d and runs up to its first await
ForceRemoteCall(c, d) ==
    /\ MayInvoke(c)
    /\ LET m == mgr[d]
           s == ls[d]
           cr == [IdleCall EXCEPT !.op = "forceSyncFromRemote", !.dev = d]
       IN  IF ForceGuard(m)
           THEN Commit(c, Raise(m, s, cr, "Sincronizacao nao esta habilitada"))
           ELSE Commit(c, fetchRemoteProgress(m, s, [cr EXCEPT !.passed = TRUE]))
    /\ UNCHANGED <<gists, now, mergeVars>>

\* disable() is called on device d
Disable(d) ==
    /\ mgr' = [mgr EXCEPT ![d] = disable(mgr[d])]
    /\ ls' = [ls EXCEPT ![d] = disableStorage(ls[d])]
    /\ UNCHANGED <<gists, now, call, outcome, mergeVars>>

\* sync(localData), up to its first await
sync(m, s, cr) ==
    IF SyncGuard(m) THEN Return(m, s, cr, EarlyReturnValue(cr.localData))
    ELSE fetchRemoteProgress([m EXCEPT !.syncInProgress = TRUE], s,
                             [cr EXCEPT !.passed = TRUE])

\* the first step of a handler of the application: it takes call c
Begin(c, app, out) ==
    LET end == AppContinue(app, out, now) IN
    /\ mgr' = [mgr EXCEPT ![end.c.dev] = end.m]
    /\ ls' = [ls EXCEPT ![end.c.dev] = end.s]
    /\ call' = [call EXCEPT ![c] =
                  [end.c EXCEPT !.auth = IF end.c.pc \in Awaiting
                                         THEN end.m.token ELSE NoToken]]
    /\ outcome' = [end.o EXCEPT !.call = c]

\* localStorage.getItem('rfcpProgressv2'), parsed, or the empty progress
StoredProgress(s) ==
    IF s.rfcpProgressv2.valid THEN JSONparse(s.rfcpProgressv2) ELSE EmptySnapshot

\* the handler did not call the manager: sync is not enabled
NotSynced(m, s, cr, value) ==
    AppEnds(Out(m, s, Ended(cr)), cr.app, "returned", value)

\* loadProgress() of main.js, or of RFCPTracker, up to its first await
LoadProgressCall(c, d, app) ==
    /\ MayInvoke(c)
    /\ ls[d].rfcpProgressv2.valid
    /\ LET m == mgr[d]
           s == ls[d]
           local == StoredProgress(s)
           cr == [IdleCall EXCEPT !.op = "sync", !.dev = d, !.localData = local,
                                  !.app = app]
       IN  IF m.syncEnabled
           THEN Begin(c, app, sync(m, s, cr))
           ELSE Begin(c, "none", NotSynced(m, s, cr, local))
    /\ UNCHANGED <<gists, now, mergeVars>>

\* saveProgress(completedIds, completionDates) of main.js, up to its first await
SaveProgressCall(c, d, data) ==
    /\ MayInvoke(c)
    /\ LET m == mgr[d]
           s == [ls[d] EXCEPT !.rfcpProgressv2 = JSONstringify(data)]
           cr == [IdleCall EXCEPT !.op = "saveRemoteProgress", !.dev = d,
                                  !.localData = data, !.app = "saveProgress"]
       IN  IF m.syncEnabled
           THEN Begin(c, cr.app, saveRemoteProgress(m, s, [cr EXCEPT !.passed = TRUE],
                                                    data, now))
           ELSE Begin(c, "none", NotSynced(m, s, cr, Absent))
    /\ UNCHANGED <<gists, now, mergeVars>>

\* RFCPTracker.saveProgress(), up to its first await
TrackerSaveCall(c, d, data) ==
    /\ MayInvoke(c)
    /\ LET m == mgr[d]
           s == [ls[d] EXCEPT !.rfcpProgressv2 = JSONstringify(data)]
           cr == [IdleCall EXCEPT !.op = "sync", !.dev = d, !.localData = data,
                                  !.app = "Tracker.saveProgress"]
       IN  IF m.syncEnabled
           THEN Begin(c, cr.app, sync(m, s, cr))
           ELSE Begin(c, "none", NotSynced(m, s, cr, Absent))
    /\ UNCHANGED <<gists, now, mergeVars>>

\* the clock advances
\* the page reads getStatus() of the manager of device d: the function assigns
\* nothing and awaits nothing
GetStatus(d) ==
    /\ outcome' = [NoOutcome EXCEPT !.how = "status", !.dev = d,
                                    !.status = getStatus(mgr[d])]
    /\ UNCHANGED <<mgr, ls, gists, now, call, mLocal, mRemote, mStage, mResult, mAgain>>

\* fetchGists, createGist, fetchRemoteProgress, saveRemoteProgress: the block
\* "if (!response.ok)" of the manager of device d, given the response r
NotOkResponse(d, r) ==
    /\ LET ms == AfterFailure(mgr[d], ls[d], r) IN
          /\ mgr' = [mgr EXCEPT ![d] = ms.m]
          /\ ls' = [ls EXCEPT ![d] = ms.s]
    /\ outcome' = [NoOutcome EXCEPT !.how = "received", !.dev = d, !.response = r]
    /\ UNCHANGED <<gists, now, call, mergeVars>>

\* the same functions, after a response that is ok: _clearRateLimit()
OkResponse(d) ==
    /\ LET ms == ClearRateLimit(mgr[d], ls[d]) IN
          /\ mgr' = [mgr EXCEPT ![d] = ms.m]
          /\ ls' = [ls EXCEPT ![d] = ms.s]
    /\ outcome' = [NoOutcome EXCEPT !.how = "received", !.dev = d, !.response = Ok]
    /\ UNCHANGED <<gists, now, call, mergeVars>>

\* ensureGistExists: the GET that verifies the stored id is not ok; the id is
\* dropped and the response is not looked at
VerifyNotOk(d, r) ==
    /\ mgr[d].gistId # NoGist
    /\ mgr' = [mgr EXCEPT ![d].gistId = NoGist]
    /\ ls' = [ls EXCEPT ![d].rfcp_gist_id = NoGist]
    /\ outcome' = [NoOutcome EXCEPT !.how = "verified", !.dev = d, !.response = r]
    /\ UNCHANGED <<gists, now, call, mergeVars>>

\* the promise of an ended call is dropped: its slot serves the next call
Forget(c) ==
    /\ call[c].pc = "done"
    /\ call' = [call EXCEPT ![c] = IdleCall]
    /\ UNCHANGED <<mgr, ls, gists, now, outcome, mergeVars>>

Tick ==
    /\ now < MaxTime
    /\ now' = now + 1
    /\ UNCHANGED <<mgr, ls, gists, call, outcome, mergeVars>>

\* the user (or another application) deletes a gist on GitHub
DeleteGist(g) ==
    /\ gists[g].state = "live"
    /\ gists' = [gists EXCEPT ![g] = [state |-> "deleted", content |-> Garbage]]
    /\ UNCHANGED <<mgr, ls, now, call, outcome, mergeVars>>

\* the arrival of the response a call awaits
Response(c) ==
    \/ EgeVerifyResp(c)
    \/ EgeListResp(c)
    \/ CgListResp(c)
    \/ CgPostResp(c)
    \/ FrpGetResp(c)
    \/ FrpGet2Resp(c)
    \/ SrpPatchResp(c)
    \/ SrpPatch2Resp(c)

(***************************************************************************)
(* One device: a SyncManager constructed over what earlier sessions left   *)
(* in localStorage, and sync() invoked on it, overlapping or not.          *)
(***************************************************************************)
\* the local snapshots handed to sync()
SyncInputs ==
    {Snapshot(<<"A">>, [NoDates EXCEPT !["A"] = "2025-01-05"]),
     [Snapshot(<<"A">>, NoDates) EXCEPT !.hasDates = FALSE]}

\* what the document may hold when the session starts
InitialRemote ==
    {JSONstringify(dataWithTimestamp(
        Snapshot(<<"B", "A">>, [NoDates EXCEPT !["A"] = "2025-01-01"]), 0))}

MergeIdle ==
    /\ mLocal = Absent /\ mRemote = Absent /\ mStage = "idle"
    /\ mResult = Absent /\ mAgain = Absent

Init ==
    /\ now = 0
    /\ \E content \in InitialRemote, live \in BOOLEAN :
          gists = [g \in GistIds |->
                     IF g = 1 /\ live THEN [state |-> "live", content |-> content]
                     ELSE NoGistEntry]
    /\ \E tok \in {Token, NoToken}, id \in {NoGist, 1}, until \in {NoTime, 1} :
          /\ id = 1 => IsLive(1)
          /\ ls = [d \in Devices |->
                     IF d = "d1"
                     THEN [EmptyStorage EXCEPT !.rfcp_gist_id = id,
                                               !.rfcp_github_token = tok,
                                               !.rfcp_rate_limited_until =
                                                   IF until = NoTime THEN NoISO
                                                   ELSE toISOString(until)]
                     ELSE EmptyStorage]
    /\ mgr = [d \in Devices |-> Constructor(ls[d])]
    /\ call = [c \in Calls |-> IdleCall]
    /\ outcome = NoOutcome
    /\ MergeIdle

Next ==
    \/ \E c \in Calls, localData \in SyncInputs : SyncCall(c, "d1", localData)
    \/ \E c \in Calls : Response(c)
    \/ Tick
    \/ \E g \in GistIds : DeleteGist(g)

Spec == Init /\ [][Next]_vars

(***************************************************************************)
(* mergeProgress applied on its own, to every pair of arguments within the *)
(* bounds.                                                                 *)
(***************************************************************************)
\* the lists of at most n ids
RECURSIVE IdLists(_)
IdLists(n) ==
    IF n = 0 THEN {<<>>}
    ELSE IdLists(n - 1) \cup
         {Append(l, i) : l \in {k \in IdLists(n - 1) : Len(k) = n - 1}, i \in Ids}

\* the completionDates objects
DateMaps == [Ids -> DateStrings \cup {NoDate}]

\* the arguments of mergeProgress: null, and the objects with or without a
\* completedIds list, with or without a completionDates object
MergeInputs ==
    {Absent} \cup
    {[isObject |-> TRUE, hasIds |-> hi, completedIds |-> ids,
      hasDates |-> hd, completionDates |-> dates, lastModified |-> NoTime] :
        hi \in BOOLEAN, ids \in IdLists(MaxLen), hd \in BOOLEAN, dates \in DateMaps}

\* an argument is written in one way only: a field that is missing has no value
Canonical(x) ==
    /\ x.hasIds \/ x.completedIds = <<>>
    /\ x.hasDates \/ x.completionDates = NoDates

\* the state of the managers while mergeProgress is applied on its own
SyncIdle ==
    /\ now = 0
    /\ gists = [g \in GistIds |-> NoGistEntry]
    /\ ls = [d \in Devices |-> EmptyStorage]
    /\ mgr = [d \in Devices |-> Constructor(EmptyStorage)]
    /\ call = [c \in Calls |-> IdleCall]
    /\ outcome = NoOutcome

InitMerge ==
    /\ SyncIdle
    /\ mLocal \in {x \in MergeInputs : Canonical(x)}
    /\ mRemote \in {x \in MergeInputs : Canonical(x)}
    /\ mStage = "input"
    /\ mResult = Absent
    /\ mAgain = Absent

\* mergeProgress(mLocal, mRemote)
ApplyMerge ==
    /\ mStage = "input"
    /\ IF mergeThrows(mLocal, mRemote)
       THEN mStage' = "threw" /\ mResult' = mResult
       ELSE mStage' = "merged" /\ mResult' = mergeProgress(mLocal, mRemote)
    /\ UNCHANGED <<mLocal, mRemote, mAgain, syncVars>>

\* mergeProgress(mResult, mResult)
ApplyMergeAgain ==
    /\ mStage = "merged"
    /\ IF mergeThrows(mResult, mResult)
       THEN mStage' = "threw again" /\ mAgain' = mAgain
       ELSE mStage' = "again" /\ mAgain' = mergeProgress(mResult, mResult)
    /\ UNCHANGED <<mLocal, mRemote, mResult, syncVars>>

NextMerge == ApplyMerge \/ ApplyMergeAgain

SpecMerge == InitMerge /\ [][NextMerge]_vars

(***************************************************************************)
(* Properties of mergeProgress (checked under SpecMerge).                  *)
(***************************************************************************)
\* a snapshot: an object with a completedIds list and a completionDates object
IsSnapshot(x) == x.isObject /\ x.hasIds /\ x.hasDates

\* mergeProgress was applied to two arguments that both have a completedIds
\* list, the local one being a snapshot
MergedBoth ==
    /\ mStage # "input"
    /\ IsSnapshot(mLocal) /\ mRemote.hasIds

\* mergeProgress returned a value
Returned == mStage \notin {"input", "threw"}

\* C7: for all snapshots A and B that both have a completedIds list, the
\* completedIds of mergeProgress(A, B) hold every id of A and every id of B,
\* no other id, and no id twice.
C7_MergedIdsAreTheUnion ==
    MergedBoth =>
        /\ Returned
        /\ IdSet(mResult.completedIds) =
              IdSet(mLocal.completedIds) \cup IdSet(mRemote.completedIds)
        /\ NoDuplicates(mResult.completedIds)

\* the two sides share an id, each side has an id of its own or repeats one
C7_Witness ==
    /\ MergedBoth /\ Returned
    /\ mLocal.completedIds = <<"A", "B">>
    /\ mRemote.completedIds = <<"B", "B">>
    /\ mResult.completedIds = <<"A", "B">>

\* the later of two dates of an id, the remote one when neither is later;
\* the date of the one side that has one
LaterDate(mine, theirs) ==
    IF mine = NoDate THEN theirs
    ELSE IF theirs = NoDate THEN mine
    ELSE IF DateValue(mine) > DateValue(theirs) THEN mine ELSE theirs

\* C8: for all snapshots local and remote with completedIds and every id that
\* has a date on at least one side, the merged completionDates give the id the
\* later of the two dates: the local date replaces the remote one only when it
\* is strictly later, and an id dated on one side only keeps that date.
C8_LatestDateWinsPerId ==
    MergedBoth =>
        /\ Returned
        /\ \A i \in Ids :
              mResult.completionDates[i] =
                  LaterDate(mLocal.completionDates[i], mRemote.completionDates[i])

\* A is dated earlier locally and keeps the remote date; B is dated later
\* locally and takes the local date
C8_Witness ==
    /\ MergedBoth /\ Returned
    /\ mLocal.completionDates["A"] = "2025-01-01"
    /\ mRemote.completionDates["A"] = "2025-01-05"
    /\ mResult.completionDates["A"] = "2025-01-05"
    /\ mLocal.completionDates["B"] = "2025-01-05"
    /\ mRemote.completionDates["B"] = "2025-01-01T00:00:00.000Z"
    /\ mResult.completionDates["B"] = "2025-01-05"

\* C9: identity laws: mergeProgress(A, absent) is A; mergeProgress(absent, B) is
\* B for every snapshot B (an object with a completedIds list); merging A with
\* the empty snapshot, on either side, yields exactly A's ids and A's dates.
C9_MergeIdentityLaws ==
    mStage # "input" =>
        /\ mRemote = Absent => mResult = mLocal
        /\ (mLocal = Absent /\ mRemote.hasIds) => (Returned /\ mResult = mRemote)
        /\ (mRemote = EmptySnapshot /\ IsSnapshot(mLocal)) =>
              /\ Returned
              /\ IdSet(mResult.completedIds) = IdSet(mLocal.completedIds)
              /\ mResult.completionDates = mLocal.completionDates
        /\ (mLocal = EmptySnapshot /\ mRemote.hasIds) =>
              /\ Returned
              /\ IdSet(mResult.completedIds) = IdSet(mRemote.completedIds)
              /\ mResult.completionDates = mRemote.completionDates

\* a snapshot with ids and dates merged with an absent remote
C9_Witness ==
    /\ mStage = "merged"
    /\ mRemote = Absent
    /\ mLocal.completedIds = <<"A", "B">>
    /\ mLocal.completionDates["A"] = "2025-01-01"
    /\ mResult = mLocal

\* C10: merge is idempotent: for all A and B that are snapshots or absent, with
\* M = mergeProgress(A, B), mergeProgress(M, M) returns and has the same
\* completedIds and the same completionDates as M (the same list when M's list
\* holds no id twice, the same set otherwise).
C10_MergeIdempotent ==
    (/\ mStage \notin {"input", "merged"}
     /\ IsSnapshot(mLocal) \/ mLocal = Absent
     /\ IsSnapshot(mRemote) \/ mRemote = Absent) =>
        /\ mStage = "again"
        /\ IdSet(mAgain.completedIds) = IdSet(mResult.completedIds)
        /\ NoDuplicates(mResult.completedIds) =>
              mAgain.completedIds = mResult.completedIds
        /\ mAgain.completionDates = mResult.completionDates
        /\ mAgain.isObject = mResult.isObject
        /\ mAgain.hasIds = mResult.hasIds

\* M comes from two sides with different ids and dates that disagree
C10_Witness ==
    /\ mStage = "again"
    /\ mLocal.completedIds = <<"A">> /\ mRemote.completedIds = <<"B", "A">>
    /\ mLocal.completionDates["A"] = "2025-01-05"
    /\ mRemote.completionDates["A"] = "2025-01-01"
    /\ mResult.completedIds = <<"A", "B">>
    /\ mAgain = mResult

(***************************************************************************)
(* Two devices that share one document: each runs sync() with an item of   *)
(* its own, and the two calls overlap in every way.                        *)
(***************************************************************************)
\* the device of a call: the calls alternate between the two devices
DeviceOf(c) == IF c % 2 = 1 THEN "d1" ELSE "d2"

\* the local progress of a device: one completed item, not known to the other
LocalOf(d) ==
    IF d = "d1" THEN Snapshot(<<"A">>, [NoDates EXCEPT !["A"] = "2025-01-01"])
    ELSE Snapshot(<<"B">>, [NoDates EXCEPT !["B"] = "2025-01-05"])

InitDevices ==
    /\ now = 0
    /\ gists = [g \in GistIds |->
                  IF g = 1
                  THEN [state |-> "live", content |-> JSONstringify(initialData(0))]
                  ELSE NoGistEntry]
    /\ ls = [d \in Devices |->
               [EmptyStorage EXCEPT !.rfcp_gist_id = 1,
                                    !.rfcp_github_token = Token]]
    /\ mgr = [d \in Devices |-> Constructor(ls[d])]
    /\ call = [c \in Calls |-> IdleCall]
    /\ outcome = NoOutcome
    /\ MergeIdle

NextDevices ==
    \/ \E c \in Calls : SyncCall(c, DeviceOf(c), LocalOf(DeviceOf(c)))
    \/ \E c \in Calls : Response(c)
    \/ \E g \in GistIds : DeleteGist(g)

SpecDevices == InitDevices /\ [][NextDevices]_vars

(***************************************************************************)
(* One device and the operations of the settings page: setupSync, disable, *)
(* forceSyncFromLocal and forceSyncFromRemote, on a manager that starts    *)
(* enabled and bound to the document, or not set up.                       *)
(***************************************************************************)
\* the progress the page keeps under rfcpProgressv2 and uploads
LocalProgress == Snapshot(<<"A">>, [NoDates EXCEPT !["A"] = "2025-01-05"])

\* the tokens typed into the settings page
SetupTokens == {Token, BadToken, BlankToken}

\* the loading overlay of the settings page is down: no operation started from
\* the page awaits a response
PageIdle == \A c \in Calls : call[c].pc \notin Awaiting

InitOps ==
    /\ now = 0
    /\ \E content \in InitialRemote, live \in BOOLEAN :
          gists = [g \in GistIds |->
                     IF g = 1 /\ live THEN [state |-> "live", content |-> content]
                     ELSE NoGistEntry]
    /\ \E enabled \in BOOLEAN :
          /\ enabled => IsLive(1)
          /\ ls = [d \in Devices |->
                     IF d = "d1"
                     THEN [rfcp_gist_id |-> IF enabled THEN 1 ELSE NoGist,
                           rfcp_github_token |-> IF enabled THEN Token ELSE NoToken,
                           rfcp_rate_limited_until |-> NoISO,
                           rfcpProgressv2 |-> JSONstringify(LocalProgress)]
                     ELSE EmptyStorage]
    /\ mgr = [d \in Devices |-> Constructor(ls[d])]
    /\ call = [c \in Calls |-> IdleCall]
    /\ outcome = NoOutcome
    /\ MergeIdle

NextOps ==
    \/ PageIdle /\ \E c \in Calls, token \in SetupTokens : SetupCall(c, "d1", token)
    \/ PageIdle /\ \E c \in Calls :
                      ForceLocalCall(c, "d1", JSONparse(ls["d1"].rfcpProgressv2))
    \/ PageIdle /\ \E c \in Calls : ForceRemoteCall(c, "d1")
    \/ Disable("d1")
    \/ \E c \in Calls : Response(c)
    \/ \E g \in GistIds : DeleteGist(g)

SpecOps == InitOps /\ [][NextOps]_vars

(***************************************************************************)
(* One device and the automatic sync of the application: loadProgress and  *)
(* saveProgress of main.js, or of class RFCPTracker, on a manager bound to *)
(* a document whose content is a snapshot, an object without completedIds, *)
(* or no JSON.                                                             *)
(***************************************************************************)
\* a document that parses but has no completedIds
NoIdsRemote ==
    [isObject |-> TRUE, hasIds |-> FALSE, completedIds |-> <<>>,
     hasDates |-> TRUE, completionDates |-> [NoDates EXCEPT !["B"] = "2025-01-01"],
     lastModified |-> 0]

\* what the document may hold when the page is opened
RemoteContents == InitialRemote \cup {JSONstringify(NoIdsRemote), Garbage}

\* the progress a user action saves
SavedProgress == {Snapshot(<<"A">>, [NoDates EXCEPT !["A"] = "2025-01-01"])}

\* the handlers of the two versions of the application
Versions ==
    {{"loadProgress", "saveProgress"}, {"Tracker.loadProgress", "Tracker.saveProgress"}}

\* the page runs version v: every handler that ran is one of v
Runs(v) == \A c \in Calls : call[c].app \in v \cup {"none"}

InitApp ==
    /\ now = 0
    /\ \E content \in RemoteContents :
          gists = [g \in GistIds |->
                     IF g = 1 THEN [state |-> "live", content |-> content]
                     ELSE NoGistEntry]
    /\ \E enabled \in BOOLEAN :
          ls = [d \in Devices |->
                  IF d = "d1"
                  THEN [rfcp_gist_id |-> IF enabled THEN 1 ELSE NoGist,
                        rfcp_github_token |-> IF enabled THEN Token ELSE NoToken,
                        rfcp_rate_limited_until |-> NoISO,
                        rfcpProgressv2 |-> JSONstringify(LocalProgress)]
                  ELSE EmptyStorage]
    /\ mgr = [d \in Devices |-> Constructor(ls[d])]
    /\ call = [c \in Calls |-> IdleCall]
    /\ outcome = NoOutcome
    /\ MergeIdle

NextApp ==
    \/ \E c \in Calls, v \in Versions, app \in {"loadProgress", "Tracker.loadProgress"} :
          PageIdle /\ app \in v /\ Runs(v) /\ LoadProgressCall(c, "d1", app)
    \/ \E c \in Calls, data \in SavedProgress :
          PageIdle /\ Runs({"loadProgress", "saveProgress"})
             /\ SaveProgressCall(c, "d1", data)
    \/ \E c \in Calls, data \in SavedProgress :
          PageIdle /\ Runs({"Tracker.loadProgress", "Tracker.saveProgress"})
             /\ TrackerSaveCall(c, "d1", data)
    \/ \E c \in Calls : Response(c)
    \/ \E g \in GistIds : DeleteGist(g)
    \/ GetStatus("d1")

SpecApp == InitApp /\ [][NextApp]_vars

(***************************************************************************)
(* Properties of sync().                                                   *)
(***************************************************************************)
\* a sync() that passed the guard, set syncInProgress and did not reset it yet
InFlight(c) == call[c].op = "sync" /\ call[c].pc \in Awaiting

\* the sync() calls in flight on a device
InFlightOn(d) == {c \in Calls : InFlight(c) /\ call[c].dev = d}

\* call c is invoked in this step
Invoked(c) == call[c].pc = "idle" /\ call'[c].pc # "idle"

\* call c, which was awaiting a response, ends in this step
Ends(c) == call[c].pc \in Awaiting /\ call'[c].pc = "done"

\* the tracker of a manager is Limited: a reset time is recorded and lies ahead
IsLimited(m, t) == m.rateLimitedUntil # NoTime /\ m.rateLimitedUntil > t

\* how far a call has come: the awaits of sync() in the order the code reaches
\* them, those of ensureGistExists() counted from the place that called it
Stage(cr) ==
    LET from == CASE cr.ret = "frp_retry" -> 10
                  [] cr.ret = "srp_retry" -> 30
                  [] OTHER -> 0
    IN  CASE cr.pc = "idle" -> 0
          [] cr.pc = "ege_verify" -> from + 1
          [] cr.pc = "ege_list" -> from + 2
          [] cr.pc = "cg_list" -> from + 3
          [] cr.pc = "cg_post" -> from + 4
          [] cr.pc = "frp_get" -> 5
          [] cr.pc = "frp_get2" -> 15
          [] cr.pc = "srp_patch" -> 20
          [] cr.pc = "srp_patch2" -> 35
          [] cr.pc = "done" -> 40

\* C1: on every manager at most one sync() is in flight, and syncInProgress is
\* set exactly while one is.
C1_SingleFlight ==
    \A d \in Devices :
        /\ Cardinality(InFlightOn(d)) <= 1
        /\ mgr[d].syncInProgress <=> InFlightOn(d) # {}

\* a second sync() was called while the first one awaits a response
C1_Witness ==
    /\ InFlight(1)
    /\ call[2].pc = "done" /\ call[2].dev = call[1].dev
    /\ mgr[call[1].dev].syncInProgress

\* C2: a sync(L2) invoked while an earlier sync() of the same manager awaits a
\* response returns L2 itself, issues no request and changes neither the
\* manager, its storage, the store nor the first call; and the first call
\* goes on as without it: the response it awaits can arrive in every state,
\* and every response moves the call forward on its way to the end.
C2_OverlappingSyncIsNoOp ==
    /\ [][\A c \in Calls :
            (Invoked(c) /\ InFlightOn(call'[c].dev) # {}) =>
                /\ call'[c].pc = "done"
                /\ outcome'.call = c /\ outcome'.how = "returned"
                /\ outcome'.value = outcome'.localData
                /\ mgr' = mgr /\ ls' = ls /\ gists' = gists
                /\ \A e \in Calls \ {c} : call'[e] = call[e]]_vars
    /\ [](\A c \in Calls : InFlight(c) => ENABLED Response(c))
    /\ [][\A c \in Calls :
            (InFlight(c) /\ call'[c] # call[c]) =>
                Stage(call'[c]) > Stage(call[c])]_vars

\* the second call returned its argument while the first call awaits the write
C2_Witness ==
    /\ InFlight(1) /\ call[1].pc = "srp_patch"
    /\ outcome.call = 2 /\ outcome.how = "returned" /\ ~outcome.passed
    /\ outcome.value = outcome.localData
    /\ outcome.localData # call[1].localData

\* C3: while a recorded reset time lies in the future, sync(L) returns L
\* unchanged and issues no request.
C3_RateLimitGatesSync ==
    [][\A c \in Calls :
          (Invoked(c) /\ call'[c].op = "sync" /\ IsLimited(mgr[call'[c].dev], now)) =>
              /\ call'[c].pc = "done"
              /\ outcome'.call = c /\ outcome'.how = "returned"
              /\ outcome'.value = outcome'.localData]_vars

\* both devices completed a sync() and hold the same document
BothSynced ==
    /\ \A c \in Calls : call[c].pc = "done"
    /\ \A d \in Devices : mgr[d].lastSync # NoTime
    /\ mgr["d1"].gistId = mgr["d2"].gistId
    /\ IsLive(mgr["d1"].gistId)

\* C4: when two devices with different completed items sync concurrently, the
\* remote document holds both items once both syncs have completed.
C4_NoItemLost ==
    BothSynced =>
        {"A", "B"} \subseteq IdSet(JSONparse(gists[mgr["d1"].gistId].content).completedIds)

\* C5: a sync(L) that completes returns mergeProgress(L, R), where R is the
\* content this call fetched from the document, and the content it wrote to
\* the document is that merged snapshot with a lastModified stamp.
C5_SyncReturnsAndWritesTheMerge ==
    [][\A c \in Calls :
          /\ (call[c].pc \in {"frp_get", "frp_get2"} /\ call'[c].pc = "srp_patch") =>
                call'[c].remoteData = JSONparse(gists[call[c].target].content)
          /\ (Ends(c) /\ call[c].op = "sync" /\ outcome'.how = "returned") =>
                /\ outcome'.call = c /\ outcome'.localData = call[c].localData
                /\ outcome'.value = mergeProgress(call[c].localData, call[c].remoteData)
                /\ gists'[call[c].target].content = JSONstringify(call[c].body)
                /\ Unstamped(call[c].body) = Unstamped(outcome'.value)]_vars

\* a sync completed that merged an id of its argument with ids of the document
C5_Witness ==
    /\ outcome.how = "returned" /\ outcome.passed
    /\ outcome.localData.completedIds = <<"A">>
    /\ outcome.value.completedIds = <<"A", "B">>
    /\ outcome.value.completionDates["A"] = "2025-01-05"
    /\ \E g \in LiveGists :
          Unstamped(JSONparse(gists[g].content)) = Unstamped(outcome.value)

\* C6: a sync() that does not complete its write ends by throwing an error to
\* its caller, with syncInProgress false in the state it leaves; the flag is
\* never left set without a call in flight, and a sync() invoked on an enabled
\* manager with no call in flight passes the guard, whatever failed before.
C6_ErrorsPropagateAndResetTheFlag ==
    /\ [][\A c \in Calls :
            (Ends(c) /\ call[c].op = "sync") =>
                /\ outcome'.call = c
                /\ ~mgr'[call[c].dev].syncInProgress
                /\ \/ outcome'.how = "threw" /\ outcome'.error # ""
                   \/ /\ outcome'.how = "returned"
                      /\ call[c].pc \in {"srp_patch", "srp_patch2"}
                      /\ gists'[call[c].target].content = JSONstringify(call[c].body)]_vars
    /\ [](\A d \in Devices : mgr[d].syncInProgress => InFlightOn(d) # {})
    /\ [][\A c \in Calls :
            (/\ Invoked(c)
             /\ mgr[call'[c].dev].syncEnabled
             /\ InFlightOn(call'[c].dev) = {}) =>
                InFlight(c)' /\ call'[c].passed]_vars

\* the second sync passed the guard after the first one had ended, and threw
\* while it awaited the write; no call is in flight and the flag is down
C6_Witness ==
    /\ outcome.call = 2 /\ outcome.how = "threw" /\ outcome.passed
    /\ outcome.error = "Erro ao salvar progresso remoto"
    /\ call[1].pc = "done" /\ call[2].dev = call[1].dev
    /\ ~mgr[call[2].dev].syncInProgress

(***************************************************************************)
(* Properties of the locator, of setupSync, disable and the forced         *)
(* transfers (checked under SpecOps).                                      *)
(***************************************************************************)
\* the awaits of ensureGistExists() and createGist()
Locating == {"ege_verify", "ege_list", "cg_list", "cg_post"}

\* call c takes a step
Steps(c) == call'[c] # call[c]

\* C11: a write that fails with 404 or 409 re-runs the locator once and is
\* retried exactly once with the same body; a retry that fails ends the call
\* with an error, no third write is attempted, and a write that fails with any
\* other status is not retried.
C11_WriteRetriedOnce ==
    [][\A c \in Calls :
          /\ (call[c].pc = "srp_patch" /\ Steps(c)) =>
                \/ /\ call'[c].pc = "done"
                   /\ outcome'.how = "returned" => outcome'.resp = "ok"
                   /\ outcome'.how = "threw" => outcome'.resp \in {"failed", "401"}
                \/ /\ outcome'.resp \in {"404", "409"}
                   /\ call'[c].pc \in {"ege_verify", "ege_list"}
                   /\ call'[c].ret = "srp_retry"
                   /\ call'[c].body = call[c].body
          /\ (call[c].pc # "srp_patch2" /\ call'[c].pc = "srp_patch2") =>
                /\ call[c].pc \in Locating /\ call[c].ret = "srp_retry"
                /\ outcome'.resp = "ok"
                /\ call'[c].body = call[c].body
          /\ (call[c].ret = "srp_retry" /\ Steps(c)) =>
                /\ Stage(call'[c]) > Stage(call[c])
                /\ call'[c].pc \in Locating \cup {"srp_patch2", "done"}
          /\ (call[c].pc = "srp_patch2" /\ Steps(c)) =>
                /\ call'[c].pc = "done"
                /\ outcome'.how = "threw" <=> outcome'.resp # "ok"]_vars

\* the write met a conflict, the locator confirmed the gist, and the retry met
\* a conflict again: the error of the retry reached the caller
C11_Witness ==
    /\ outcome.how = "threw"
    /\ outcome.error = "Erro ao salvar progresso remoto (retry)"
    /\ outcome.resp = "409"

\* C12: when the store reports the cached gist id as not found, ensureGistExists
\* drops the id and goes on to list the gists instead of raising the error; and
\* when the listing and the creation are answered successfully it returns to
\* its caller with the id of a gist that exists in the store (listed, or just
\* created), held both in this.gistId and under rfcp_gist_id.
C12_LocatorRecovers ==
    [][\A c \in Calls :
          LET d == call[c].dev IN
          /\ (call[c].pc = "ege_verify" /\ Steps(c) /\ outcome'.resp = "404") =>
                /\ call'[c].pc = "ege_list"
                /\ outcome'.how = "none"
                /\ mgr'[d].gistId = NoGist /\ ls'[d].rfcp_gist_id = NoGist
          /\ (call[c].pc \in {"ege_list", "cg_list", "cg_post"} /\ Steps(c)
                 /\ outcome'.resp = "ok") =>
                /\ outcome'.how # "threw"
                /\ call'[c].pc \notin Locating =>
                      /\ mgr'[d].gistId # NoGist
                      /\ gists'[mgr'[d].gistId].state = "live"
                      /\ ls'[d].rfcp_gist_id = mgr'[d].gistId
                      /\ call'[c].pc \in Awaiting => call'[c].target = mgr'[d].gistId]_vars

\* the gist the manager was bound to was deleted: the read met 404, the locator
\* ran, and the read is repeated on the live gist the manager is now bound to
C12_Witness ==
    \E c \in Calls :
       /\ call[c].pc = "frp_get2" /\ call[c].ret = "frp_retry"
       /\ outcome.resp = "ok"
       /\ gists[1].state = "deleted"
       /\ mgr[call[c].dev].gistId = call[c].target
       /\ ls[call[c].dev].rfcp_gist_id = call[c].target
       /\ IsLive(call[c].target)

\* C13: the locator sends the request that creates a gist only after a listing
\* that was answered successfully (and named no gist of the application): a
\* failed listing is followed by no create request.
C13_NoCreateAfterFailedListing ==
    [][\A c \in Calls :
          (call[c].pc # "cg_post" /\ call'[c].pc = "cg_post") =>
             outcome'.resp = "ok"]_vars

\* the step ends call c of operation op by an error thrown to the caller
Fails(c, op) ==
    /\ Steps(c) /\ call'[c].pc = "done" /\ call'[c].op = op
    /\ outcome'.how = "threw"

\* nothing of a binding is left on device d: not enabled, no token and no gist
\* id, in memory and in localStorage
Unbound(m, s) ==
    /\ ~m.syncEnabled /\ m.token = NoToken /\ m.gistId = NoGist
    /\ s.rfcp_github_token = NoToken /\ s.rfcp_gist_id = NoGist

\* C14 as stated: whenever setupSync(token) ends by an error, sync is disabled
\* and no token and no gist id is left in memory or in localStorage.
C14_AnyFailedSetupLeavesNothing ==
    [][\A c \in Calls :
          Fails(c, "setupSync") =>
             Unbound(mgr'[call'[c].dev], ls'[call'[c].dev])]_vars

\* C14, amended: a setupSync(token) that fails after it accepted the token
\* leaves sync disabled and no token and no gist id in memory or localStorage,
\* and its error is the reason of the failure wrapped in the message of setup;
\* a blank token is refused with its own message before anything is touched,
\* so the manager and its storage stay as they were.
C14_FailedSetupLeavesNothing ==
    [][\A c \in Calls :
          Fails(c, "setupSync") =>
             LET d == call'[c].dev IN
             IF outcome'.passed
             THEN /\ Unbound(mgr'[d], ls'[d])
                  /\ outcome'.wrapped = SetupCatchWrap
                  /\ outcome'.error \in {"Erro ao criar gist", "Rate limit excedido",
                                         "NetworkError"}
             ELSE /\ mgr'[d] = mgr[d] /\ ls'[d] = ls[d]
                  /\ outcome'.wrapped = ""
                  /\ outcome'.error = "Token do GitHub e obrigatorio"]_vars

\* a setup that had stored its token failed on the creation of the gist
C14_Witness ==
    /\ outcome.how = "threw" /\ outcome.passed
    /\ call[outcome.call].op = "setupSync"
    /\ outcome.error = "Erro ao criar gist"
    /\ Unbound(mgr["d1"], ls["d1"])

\* C15: setupSync sends no request that lists or creates gists with a token
\* GitHub does not accept: the token is validated before the locator runs.
C15_InvalidTokenNeverReachesLocator ==
    \A c \in Calls :
       (call[c].op = "setupSync" /\ call[c].pc \in {"ege_list", "cg_list", "cg_post"})
          => call[c].auth # BadToken

\* C16: a step that changes a manager or its storage without any call taking a
\* step is disable(): it leaves sync disabled and no token and no gist id in
\* memory or localStorage, sends no request (no call moves), and leaves the
\* local progress (rfcpProgressv2), the gists of the store and every other
\* field of the manager and key of its storage as they were.
C16_DisableClearsBindingOnly ==
    [][(call' = call /\ (mgr' # mgr \/ ls' # ls)) =>
          /\ gists' = gists
          /\ \A d \in Devices :
                (mgr'[d] # mgr[d] \/ ls'[d] # ls[d]) =>
                   /\ Unbound(mgr'[d], ls'[d])
                   /\ ls'[d].rfcpProgressv2 = ls[d].rfcpProgressv2
                   /\ ls'[d].rfcp_rate_limited_until = ls[d].rfcp_rate_limited_until
                   /\ mgr'[d].lastSync = mgr[d].lastSync
                   /\ mgr'[d].syncInProgress = mgr[d].syncInProgress
                   /\ mgr'[d].rateLimitedUntil = mgr[d].rateLimitedUntil]_vars

\* disable() was called after a forced upload had succeeded: the binding is
\* gone, the local progress and the uploaded document are still there
C16_Witness ==
    /\ outcome.how = "returned"
    /\ call[outcome.call].op = "forceSyncFromLocal"
    /\ Unbound(mgr["d1"], ls["d1"])
    /\ ls["d1"].rfcpProgressv2 = JSONstringify(LocalProgress)
    /\ \E g \in GistIds :
          /\ IsLive(g)
          /\ Unstamped(JSONparse(gists[g].content)) = Unstamped(LocalProgress)

\* the step ends call c of operation op by a return to the caller
Succeeds(c, op) ==
    /\ Steps(c) /\ call'[c].pc = "done" /\ call'[c].op = op
    /\ outcome'.how = "returned"

\* C17: when forceSyncFromLocal(L) returns, the gist it wrote holds L with the
\* lastModified stamp of the call and nothing else: the ids and dates are those
\* of L whatever the gist held before, and lastSync is set.
C17_ForcedUploadOverwrites ==
    [][\A c \in Calls :
          Succeeds(c, "forceSyncFromLocal") =>
             LET g == call[c].target
                 L == outcome'.localData
             IN  /\ gists'[g].state = "live"
                 /\ gists'[g].content = JSONstringify(dataWithTimestamp(L, now))
                 /\ Unstamped(JSONparse(gists'[g].content)) = Unstamped(L)
                 /\ mgr'[call[c].dev].lastSync = now]_vars

\* the first call of the session uploaded {A} over the gist that held {B, A}:
\* B is gone from the document
C17_Witness ==
    /\ outcome.how = "returned" /\ outcome.call = 1
    /\ call[1].op = "forceSyncFromLocal"
    /\ call[2].pc = "idle"
    /\ IsLive(1) /\ gists[2].state = "free"
    /\ JSONparse(gists[1].content).completedIds = <<"A">>

\* C18: no step of forceSyncFromRemote() changes a gist the store holds (the
\* locator may add a gist when the bound one is gone, it rewrites none), and
\* when it returns, the value returned is the parsed content of the gist it
\* read, stamp included, with nothing of the local progress merged in.
C18_ForcedDownloadReturnsRemote ==
    [][\A c \in Calls :
          (Steps(c) /\ call'[c].op = "forceSyncFromRemote") =>
             /\ \A g \in GistIds : gists[g].state # "free" => gists'[g] = gists[g]
             /\ Succeeds(c, "forceSyncFromRemote") =>
                   /\ gists' = gists
                   /\ gists[call[c].target].state = "live"
                   /\ outcome'.value = JSONparse(gists[call[c].target].content)
                   /\ mgr'[call[c].dev].lastSync = now]_vars

\* the download returned {B, A} with the dates and the stamp of the gist, while
\* the local progress is {A} with another date
C18_Witness ==
    /\ outcome.how = "returned"
    /\ call[outcome.call].op = "forceSyncFromRemote"
    /\ outcome.value \in {JSONparse(content) : content \in InitialRemote}
    /\ outcome.value = JSONparse(gists[1].content)
    /\ outcome.value.completedIds = <<"B", "A">>
    /\ JSONparse(ls["d1"].rfcpProgressv2) = LocalProgress

\* the forced transfers
ForceOps == {"forceSyncFromLocal", "forceSyncFromRemote"}

\* C19: forceSyncFromLocal and forceSyncFromRemote invoked while sync is not
\* enabled end at once with the error 'Sincronizacao nao esta habilitada': no
\* request is awaited, and the manager (lastSync and gist id included), its
\* storage and the gists of the store are unchanged; invoked while sync is
\* enabled they do not meet this error.
C19_ForcedTransfersNeedSync ==
    [][\A c \in Calls :
          (call[c].pc = "idle" /\ Steps(c) /\ call'[c].op \in ForceOps) =>
             IF ~mgr[call'[c].dev].syncEnabled
             THEN /\ call'[c].pc = "done"
                  /\ outcome'.how = "threw"
                  /\ outcome'.error = "Sincronizacao nao esta habilitada"
                  /\ mgr' = mgr /\ ls' = ls /\ gists' = gists
             ELSE outcome'.error # "Sincronizacao nao esta habilitada"]_vars

\* a forced transfer was refused on a manager that had synchronised before it
\* was disabled: lastSync is still there and the gist is still live
C19_Witness ==
    /\ outcome.how = "threw"
    /\ outcome.error = "Sincronizacao nao esta habilitada"
    /\ call[outcome.call].op \in ForceOps
    /\ mgr["d1"].lastSync # NoTime
    /\ \E g \in GistIds : IsLive(g)

\* C20: no step of setupSync, of the locator or of a forced transfer sends a
\* request while the reset time recorded by the manager lies in the future,
\* the time recorded in that very step included.
C20_NoRequestWhileLimited ==
    [][\A c \in Calls :
          (Steps(c) /\ call'[c].pc \in Awaiting) =>
             ~IsLimited(mgr'[call'[c].dev], now')]_vars

(***************************************************************************)
(* Properties of the automatic sync, of getStatus and of the rate-limit    *)
(* record.                                                                 *)
(***************************************************************************)
\* a content text has the shape of a snapshot: it parses and has completedIds
WellShaped(text) == text.valid /\ JSONparse(text).isObject /\ JSONparse(text).hasIds

\* C21: when the content read from the gist does not have the shape of a
\* snapshot, the call that read it ends with an error in that step: no write
\* to the gist follows and the gists are unchanged.
C21_MalformedRemoteIsAnError ==
    [][\A c \in Calls :
          (/\ call[c].pc \in {"frp_get", "frp_get2"} /\ Steps(c)
           /\ outcome'.resp = "ok"
           /\ ~WellShaped(gists[call[c].target].content)) =>
              /\ outcome'.how = "threw"
              /\ call'[c].pc \notin Awaiting
              /\ gists' = gists]_vars

\* the handlers that load the progress, and those that save it
LoadHandlers == {"loadProgress", "Tracker.loadProgress"}
SaveHandlers == {"saveProgress", "Tracker.saveProgress"}

\* C22: when the sync run by loadProgress or saveProgress ends with an error,
\* the handler returns normally (the error does not reach the user action), a
\* load returns the local snapshot it read from rfcpProgressv2, and the step
\* leaves rfcpProgressv2 as it was (for a save: holding the saved progress).
C22_FailedAutoSyncKeepsLocal ==
    [][\A c \in Calls :
          (Steps(c) /\ outcome'.call = c /\ outcome'.how = "threw"
             /\ outcome'.app # "none") =>
             LET d == call'[c].dev IN
             /\ outcome'.appHow = "returned"
             /\ call'[c].pc = "done"
             /\ gists' = gists
             /\ outcome'.app \in LoadHandlers =>
                   /\ ls'[d].rfcpProgressv2 = ls[d].rfcpProgressv2
                   /\ outcome'.appValue = StoredProgress(ls'[d])
             /\ outcome'.app \in SaveHandlers =>
                   /\ ls'[d].rfcpProgressv2 = JSONstringify(outcome'.localData)
                   /\ call[c].pc \in Awaiting =>
                         ls'[d].rfcpProgressv2 = ls[d].rfcpProgressv2]_vars

\* the sync of loadProgress failed on its write: the handler returned the
\* local progress, which is still what rfcpProgressv2 holds
C22_Witness ==
    /\ outcome.how = "threw" /\ outcome.app \in LoadHandlers
    /\ outcome.error = "Erro ao salvar progresso remoto"
    /\ outcome.appHow = "returned"
    /\ outcome.appValue = LocalProgress
    /\ ls["d1"].rfcpProgressv2 = JSONstringify(LocalProgress)

\* C27: when the sync() run by a handler of the application returns after its
\* write, rfcpProgressv2 holds the completedIds and completionDates of the
\* merged snapshot that sync() returned.
C27_SyncedProgressIsPersisted ==
    [][\A c \in Calls :
          (Steps(c) /\ outcome'.call = c /\ outcome'.how = "returned"
             /\ outcome'.passed /\ outcome'.value.isObject
             /\ outcome'.app \in LoadHandlers \cup {"Tracker.saveProgress"}) =>
             /\ ls'[call'[c].dev].rfcpProgressv2.valid
             /\ JSONparse(ls'[call'[c].dev].rfcpProgressv2) = Fields(outcome'.value)]_vars

\* C23: getStatus() is a pure read. The step in which it is read changes no
\* manager, no storage, no document and no call (so no request is issued), and
\* the value it returns has enabled, lastSync and gistId of the manager, the
\* recorded reset time as ISO string (null when there is none), and inProgress
\* true exactly when a sync() of the device is in flight.
C23_GetStatusIsAPureRead ==
    [][\A d \in Devices :
          (outcome' # outcome /\ outcome'.how = "status" /\ outcome'.dev = d) =>
             /\ mgr' = mgr /\ ls' = ls /\ gists' = gists /\ call' = call
             /\ outcome'.status.enabled = mgr[d].syncEnabled
             /\ outcome'.status.lastSync = mgr[d].lastSync
             /\ outcome'.status.gistId = mgr[d].gistId
             /\ outcome'.status.inProgress = (InFlightOn(d) # {})
             /\ outcome'.status.rateLimitedUntil =
                   IF mgr[d].rateLimitedUntil = NoTime THEN NoISO
                   ELSE toISOString(mgr[d].rateLimitedUntil)]_vars

\* C23 witness: getStatus() was read while a sync() was in flight and answered
\* inProgress = true with the recorded reset time
C23_Witness ==
    /\ outcome.how = "status" /\ outcome.dev = "d1"
    /\ outcome.status.inProgress /\ InFlightOn("d1") # {}
    /\ outcome.status.enabled
    /\ outcome.status.rateLimitedUntil # NoISO

----------------------------------------------------------------------------
\* Two devices that hold the ids of two different documents

\* a race has left each device with the id of its own tagged document, and
\* both documents exist
InitRaced ==
    /\ now = 0
    /\ gists = [g \in GistIds |->
                  IF g \in {1, 2}
                  THEN [state |-> "live", content |-> JSONstringify(initialData(0))]
                  ELSE NoGistEntry]
    /\ ls = [d \in Devices |->
               [EmptyStorage EXCEPT !.rfcp_gist_id = IF d = "d1" THEN 1 ELSE 2,
                                    !.rfcp_github_token = Token]]
    /\ mgr = [d \in Devices |-> Constructor(ls[d])]
    /\ call = [c \in Calls |-> IdleCall]
    /\ outcome = NoOutcome
    /\ MergeIdle

\* the devices sync again and again, one at a time
SyncAgain(d) ==
    /\ \A e \in Calls : call[e].pc \notin Awaiting
    /\ \E c \in Calls : DeviceOf(c) = d /\ SyncCall(c, d, LocalOf(d))

\* the responses that arrive while no document is deleted: the read is never
\* answered 404, so it is never repeated
ResponseOfKept(c) ==
    \/ EgeVerifyResp(c)
    \/ EgeListResp(c)
    \/ CgListResp(c)
    \/ CgPostResp(c)
    \/ FrpGetResp(c)
    \/ SrpPatchResp(c)
    \/ SrpPatch2Resp(c)

NextRaced ==
    \/ \E d \in Devices : SyncAgain(d)
    \/ \E c \in Calls : ResponseOfKept(c)
    \/ \E c \in Calls : Forget(c)

\* every request is answered, every ended call is dropped, and each device
\* goes on calling sync()
SpecRaced ==
    /\ InitRaced /\ [][NextRaced]_vars
    /\ \A c \in Calls : WF_vars(ResponseOfKept(c)) /\ WF_vars(Forget(c))
    /\ \A d \in Devices : SF_vars(SyncAgain(d))

\* a sync() of device d has just returned after its write was accepted
SyncedNow(d) ==
    /\ outcome.call # 0 /\ DeviceOf(outcome.call) = d
    /\ outcome.how = "returned" /\ outcome.passed

\* C24: when two devices hold the ids of two different tagged documents that
\* both go on existing, and each device goes on completing sync() calls, both
\* devices eventually use the same document id.
C24_DevicesConverge ==
    ([](IsLive(1) /\ IsLive(2)) /\ \A d \in Devices : []<>SyncedNow(d))
        => <>(mgr["d1"].gistId = mgr["d2"].gistId)

----------------------------------------------------------------------------
\* Properties of mergeProgress on absent and on incomplete arguments

\* C25: mergeProgress(absent, absent) returns an empty snapshot (an object
\* with no completed id and no completion date), not an absent value.
C25_AbsentBothGivesEmpty ==
    (mStage # "input" /\ ~mLocal.isObject /\ ~mRemote.isObject) =>
        /\ Returned
        /\ mResult.isObject /\ mResult.hasIds
        /\ mResult.completedIds = <<>>
        /\ mResult.completionDates = NoDates

\* C26: mergeProgress returns a snapshot and raises no error when both sides
\* have a completedIds list, whatever their completionDates are (dates without
\* id, ids without date, no completionDates at all), and the completedIds it
\* returns are the union of both sides.
C26_MergeToleratesIllFormed ==
    (mStage # "input" /\ mLocal.isObject /\ mLocal.hasIds
                      /\ mRemote.isObject /\ mRemote.hasIds) =>
        /\ Returned
        /\ mResult.isObject /\ mResult.hasIds
        /\ IdSet(mResult.completedIds) =
              IdSet(mLocal.completedIds) \cup IdSet(mRemote.completedIds)

----------------------------------------------------------------------------
\* Properties of createGist

\* two devices of one account: d1 is bound to gist 1, d2 holds no token yet
InitCreate ==
    /\ now = 0
    /\ gists = [g \in GistIds |->
                  IF g = 1
                  THEN [state |-> "live", content |-> JSONstringify(initialData(0))]
                  ELSE NoGistEntry]
    /\ ls = [d \in Devices |->
               IF d = "d1"
               THEN [EmptyStorage EXCEPT !.rfcp_gist_id = 1,
                                         !.rfcp_github_token = Token]
               ELSE EmptyStorage]
    /\ mgr = [d \in Devices |-> Constructor(ls[d])]
    /\ call = [c \in Calls |-> IdleCall]
    /\ outcome = NoOutcome
    /\ MergeIdle

\* the responses that setupSync() and forceSyncFromRemote() await: those of
\* ensureGistExists, createGist and fetchRemoteProgress
ResponseOfRead(c) ==
    \/ EgeVerifyResp(c)
    \/ EgeListResp(c)
    \/ CgListResp(c)
    \/ CgPostResp(c)
    \/ FrpGetResp(c)
    \/ FrpGet2Resp(c)

\* each device has one page open, whose overlay is up while its call awaits
DeviceIdle(d) == \A c \in Calls : call[c].pc \in Awaiting => call[c].dev # d

\* d2 is set up with the token of the account and d1 downloads the progress,
\* each at any time
NextCreate ==
    \/ \E c \in Calls : DeviceIdle("d2") /\ SetupCall(c, "d2", Token)
    \/ \E c \in Calls : DeviceIdle("d1") /\ ForceRemoteCall(c, "d1")
    \/ \E c \in Calls : ResponseOfRead(c)
    \/ \E g \in GistIds : DeleteGist(g)

SpecCreate == InitCreate /\ [][NextCreate]_vars

\* C28: the create request is issued only out of the listing that createGist
\* makes itself, and when that listing is answered and shows a tagged gist, no
\* create request is issued and no gist is created: the id of a listed gist is
\* cached in memory and in storage, and is the id the caller goes on with.
C28_ListedAgainBeforeCreate ==
    [][\A c \in Calls :
          /\ (Steps(c) /\ call'[c].pc = "cg_post") => call[c].pc = "cg_list"
          /\ (Steps(c) /\ call[c].pc = "cg_list" /\ outcome'.resp = "ok"
                 /\ LiveGists # {}) =>
                /\ call'[c].pc # "cg_post"
                /\ gists' = gists
                /\ mgr'[call[c].dev].gistId \in LiveGists
                /\ ls'[call[c].dev].rfcp_gist_id = mgr'[call[c].dev].gistId
                /\ call'[c].pc \in Awaiting =>
                      call'[c].target = mgr'[call[c].dev].gistId]_vars

\* C28 witness: gist 1 was deleted and a download of d1 went into createGist
\* (its first listing showed no gist, or failed); the setupSync() of d2 created
\* gist 2 and ended; the listing of createGist, the last response that
\* arrived, made the call of d1 go on with gist 2 instead of creating a gist
C28_Witness ==
    \E c \in Calls :
       /\ outcome.how = "none" /\ outcome.resp = "ok"
       /\ \A e \in Calls \ {c} : call[e].pc = "done" /\ call[e].dev = "d2"
       /\ call[c].dev = "d1" /\ call[c].initial # NoTime
       /\ call[c].pc = "frp_get2" /\ call[c].target = 2
       /\ mgr["d1"].gistId = 2 /\ ls["d1"].rfcp_gist_id = 2
       /\ mgr["d2"].gistId = 2
       /\ LiveGists = {2}

----------------------------------------------------------------------------
\* The rate-limit record

\* two managers, each bound to a gist, with or without a recorded reset time
InitLimit ==
    /\ now = 0
    /\ gists = [g \in GistIds |->
                  IF g = 1
                  THEN [state |-> "live", content |-> JSONstringify(initialData(0))]
                  ELSE NoGistEntry]
    /\ \E until \in [Devices -> {NoTime, 1}] :
          ls = [d \in Devices |->
                  [EmptyStorage EXCEPT !.rfcp_gist_id = 1,
                                       !.rfcp_github_token = Token,
                                       !.rfcp_rate_limited_until =
                                          IF until[d] = NoTime THEN NoISO
                                          ELSE toISOString(until[d])]]
    /\ mgr = [d \in Devices |-> Constructor(ls[d])]
    /\ call = [c \in Calls |-> IdleCall]
    /\ outcome = NoOutcome
    /\ MergeIdle

\* the responses a manager receives one after the other, the passing of time,
\* and disable()
NextLimit ==
    \/ \E d \in Devices, r \in Failures(now) : NotOkResponse(d, r)
    \/ \E d \in Devices : OkResponse(d)
    \/ \E d \in Devices, r \in Failures(now) : VerifyNotOk(d, r)
    \/ \E d \in Devices : Disable(d)
    \/ Tick

SpecLimit == InitLimit /\ [][NextLimit]_vars

\* the response says that the budget is exhausted: status 429, or status 403
\* with a rate-limit message
Exhausted(r) ==
    /\ r.kind = "http"
    /\ r.status = 429 \/ (r.status = 403 /\ r.body = "json-rate-limit")

\* C29: every response that indicates budget exhaustion (429, or 403 with a
\* rate-limit message), whatever its body and whichever request it answers,
\* leaves the manager that received it with a recorded reset time (Limited).
C29_ExhaustionAlwaysLimits ==
    (outcome.how \in {"received", "verified"} /\ Exhausted(outcome.response)) =>
        mgr[outcome.dev].rateLimitedUntil # NoTime

\* C30: the recorded reset time becomes null only in a step in which a response
\* that is ok is received, and a failed response without reset-time header,
\* with or without a rate-limit signal, leaves the recorded time as it is, in
\* memory and in storage.
C30_ResetTimeKeptUntilSuccess ==
    [][\A d \in Devices :
          /\ (mgr[d].rateLimitedUntil # NoTime /\ mgr'[d].rateLimitedUntil = NoTime) =>
                (outcome' # outcome /\ outcome'.dev = d /\ outcome'.response = Ok)
          /\ (ls[d].rfcp_rate_limited_until # NoISO
                 /\ ls'[d].rfcp_rate_limited_until = NoISO) =>
                (outcome' # outcome /\ outcome'.dev = d /\ outcome'.response = Ok)
          /\ (outcome' # outcome /\ outcome'.dev = d
                 /\ outcome'.response.kind \in {"http", "neterr"}
                 /\ outcome'.response.reset = NoTime) =>
                /\ mgr'[d].rateLimitedUntil = mgr[d].rateLimitedUntil
                /\ ls'[d].rfcp_rate_limited_until = ls[d].rfcp_rate_limited_until]_vars

\* C30 witness: a 429 without reset-time header was received while a reset time
\* was recorded, and the recorded time is still there
C30_Witness ==
    /\ outcome.how = "received" /\ outcome.dev = "d1"
    /\ outcome.response = HttpError(429, "json-rate-limit", NoTime)
    /\ mgr["d1"].rateLimitedUntil = 1
    /\ ls["d1"].rfcp_rate_limited_until = toISOString(1)

(***************************************************************************)
(* The reset time in memory and the reset time in storage.                 *)
(***************************************************************************)
\* C31: in every state the persisted reset time (rfcp_rate_limited_until) is
\* the ISO string of the reset time the manager holds in memory, and is absent
\* exactly when the manager holds none, so that a manager constructed from the
\* storage reports the same rateLimitedUntil as the running one.
C31_PersistedResetTimeMatches ==
    \A d \in Devices :
       /\ ls[d].rfcp_rate_limited_until =
             (IF mgr[d].rateLimitedUntil # NoTime
              THEN toISOString(mgr[d].rateLimitedUntil) ELSE NoISO)
       /\ getStatus(Constructor(ls[d])).rateLimitedUntil =
             getStatus(mgr[d]).rateLimitedUntil

\* C31 witness: a failed response with a reset-time header was received, and
\* the time is held in memory and in storage
C31_Witness ==
    /\ outcome.resp = "failed"
    /\ mgr["d1"].rateLimitedUntil = 1
    /\ ls["d1"].rfcp_rate_limited_until = toISOString(1)
    /\ Constructor(ls["d1"]).rateLimitedUntil = 1

(***************************************************************************)
(* Every method that issues requests, on one device: setupSync, sync and   *)
(* the forced transfers, with every request answered at some time.        *)
(***************************************************************************)
\* the page of a device that is bound to document 1, which is live or was
\* deleted while the page was closed
InitCalls ==
    /\ now = 0
    /\ \E state \in {"live", "deleted"} :
          gists = [g \in GistIds |->
                     IF g = 1
                     THEN [state |-> state,
                           content |-> IF state = "live"
                                       THEN JSONstringify(initialData(0))
                                       ELSE Garbage]
                     ELSE NoGistEntry]
    /\ ls = [d \in Devices |->
               IF d = "d1"
               THEN [EmptyStorage EXCEPT
                        !.rfcp_gist_id = 1, !.rfcp_github_token = Token,
                        !.rfcpProgressv2 = JSONstringify(LocalProgress)]
               ELSE EmptyStorage]
    /\ mgr = [d \in Devices |-> Constructor(ls[d])]
    /\ call = [c \in Calls |-> IdleCall]
    /\ outcome = NoOutcome
    /\ MergeIdle

\* one method at a time is invoked from the page
NextCalls ==
    \/ PageIdle /\ \E c \in Calls, token \in {Token, BadToken} :
                      SetupCall(c, "d1", token)
    \/ PageIdle /\ \E c \in Calls :
                      SyncCall(c, "d1", JSONparse(ls["d1"].rfcpProgressv2))
    \/ PageIdle /\ \E c \in Calls :
                      ForceLocalCall(c, "d1", JSONparse(ls["d1"].rfcpProgressv2))
    \/ PageIdle /\ \E c \in Calls : ForceRemoteCall(c, "d1")
    \/ \E c \in Calls : Response(c)

\* fetch() settles: a request that awaits its response gets one
SpecCalls ==
    InitCalls /\ [][NextCalls]_vars /\ WF_vars(\E c \in Calls : Response(c))

\* C32: every call of sync(), forceSyncFromLocal(), forceSyncFromRemote() and
\* setupSync() that awaits a response ends, by a return or a throw, once the
\* responses arrive; each response takes the call to a later await or to its
\* end, the repeated GET and the repeated PATCH being reached at most once, so
\* that a call issues a bounded number of requests; and syncInProgress does
\* not stay true for ever.
C32_CallsEnd ==
    /\ [][\A c \in Calls :
            (call[c].pc \in Awaiting /\ Steps(c)) =>
                Stage(call'[c]) > Stage(call[c])]_vars
    /\ []<>(/\ \A c \in Calls : call[c].pc \notin Awaiting
            /\ \A d \in Devices : ~mgr[d].syncInProgress)

\* C32 witness: a sync() whose PATCH was refused ran the locator, repeated
\* the PATCH, which failed as well, and ended with the error of the retry
C32_Witness ==
    \E c \in Calls :
       /\ call[c].op = "sync" /\ call[c].pc = "done"
       /\ outcome.call = c /\ outcome.how = "threw"
       /\ outcome.error = "Erro ao salvar progresso remoto (retry)"
       /\ ~mgr["d1"].syncInProgress

(***************************************************************************)
(* The binding of a device while setupSync and disable interleave.         *)
(***************************************************************************)
\* the step in which a setupSync() of device d returns to its caller
SetupReturns(d) ==
    \E c \in Calls :
       /\ Ends(c) /\ call[c].op = "setupSync" /\ call[c].dev = d
       /\ outcome'.call = c /\ outcome'.how = "returned"

\* C33: a credential is written to localStorage, and sync is marked enabled,
\* only in the step in which setupSync() returns after its locator succeeded:
\* while a setup is unfinished its new credential is not in localStorage.
C33_CredentialPersistedAfterLocator ==
    [][\A d \in Devices :
          /\ (/\ ls'[d].rfcp_github_token # ls[d].rfcp_github_token
              /\ ls'[d].rfcp_github_token # NoToken) => SetupReturns(d)
          /\ (~mgr[d].syncEnabled /\ mgr'[d].syncEnabled) => SetupReturns(d)]_vars

(***************************************************************************)
(* RFCPTracker: the user toggles objectives while sync is enabled and      *)
(* every request succeeds.                                                 *)
(***************************************************************************)
\* new Date().toISOString() at the time of a toggle
ToggleDate == "2025-01-05"

\* completedIds.splice(index, 1): the list without id
RemoveId(ids, id) == SelectSeq(ids, LAMBDA x : x # id)

\* toggleObjective(id): completedIds and completionDates after the toggle
Toggled(cur, id) ==
    IF id \notin IdSet(cur.completedIds)
    THEN Snapshot(Append(cur.completedIds, id),
                  [cur.completionDates EXCEPT ![id] = ToggleDate])
    ELSE Snapshot(RemoveId(cur.completedIds, id),
                  [cur.completionDates EXCEPT ![id] = NoDate])

\* the object saveProgress() handed to a sync() holds the arrays of the
\* tracker themselves: a sync() that has not merged yet sees their change
SharesArrays(cr, d) ==
    /\ cr.app = "Tracker.saveProgress" /\ cr.dev = d
    /\ cr.pc \in {"frp_get", "frp_get2"} \cup Locating

\* toggleObjective(id) of RFCPTracker on device d, up to the first await of
\* its saveProgress(): the arrays change, localStorage.setItem, sync(data)
ToggleObjective(c, d, id) ==
    /\ MayInvoke(c)
    /\ LET m == mgr[d]
           data == Toggled(StoredProgress(ls[d]), id)
           s == [ls[d] EXCEPT !.rfcpProgressv2 = JSONstringify(data)]
           cr == [IdleCall EXCEPT !.op = "sync", !.dev = d, !.localData = data,
                                  !.app = "Tracker.saveProgress"]
           end == IF m.syncEnabled
                  THEN AppContinue(cr.app, sync(m, s, cr), now)
                  ELSE NotSynced(m, s, cr, Absent)
       IN  /\ mgr' = [mgr EXCEPT ![d] = end.m]
           /\ ls' = [ls EXCEPT ![d] = end.s]
           /\ call' = [e \in Calls |->
                         IF e = c
                         THEN [end.c EXCEPT !.auth = IF end.c.pc \in Awaiting
                                                     THEN end.m.token ELSE NoToken]
                         ELSE IF SharesArrays(call[e], d)
                         THEN [call[e] EXCEPT !.localData = data]
                         ELSE call[e]]
           /\ outcome' = [end.o EXCEPT !.call = c]
    /\ UNCHANGED <<gists, now, mergeVars>>

\* the response to the GET or to the PATCH of a sync() is ok
ResponseOk(c) ==
    /\ FrpGetResp(c) \/ SrpPatchResp(c)
    /\ outcome'.resp = "ok"

\* the tracker of a device that is bound to the live document; nothing is
\* completed yet, locally or remotely
InitEdit ==
    /\ now = 0
    /\ gists = [g \in GistIds |->
                  IF g = 1
                  THEN [state |-> "live", content |-> JSONstringify(initialData(0))]
                  ELSE NoGistEntry]
    /\ ls = [d \in Devices |->
               IF d = "d1"
               THEN [EmptyStorage EXCEPT
                        !.rfcp_gist_id = 1, !.rfcp_github_token = Token,
                        !.rfcpProgressv2 = JSONstringify(EmptySnapshot)]
               ELSE EmptyStorage]
    /\ mgr = [d \in Devices |-> Constructor(ls[d])]
    /\ call = [c \in Calls |-> IdleCall]
    /\ outcome = NoOutcome
    /\ MergeIdle

NextEdit ==
    \/ \E c \in Calls, id \in Ids : ToggleObjective(c, "d1", id)
    \/ \E c \in Calls : ResponseOk(c)
    \/ \E c \in Calls : Forget(c)

SpecEdit == InitEdit /\ [][NextEdit]_vars

\* the remote document lists every id the tracker of device d has completed
RemoteHoldsLocal(d) ==
    /\ gists[mgr[d].gistId].content.valid
    /\ IdSet(StoredProgress(ls[d]).completedIds) \subseteq
          IdSet(JSONparse(gists[mgr[d].gistId].content).completedIds)

\* C34: with sync enabled and every request succeeding, a local change is
\* written to the remote document by the time the syncs end: whenever no
\* sync() of the device awaits a response, the remote document lists every
\* id that is completed locally, also when a change was made while the sync
\* of an earlier change was in flight.
C34_ChangesReachRemote ==
    (\A c \in Calls : call[c].pc \notin Awaiting) => RemoteHoldsLocal("d1")

\* C35: in every state, however setupSync(), disable() and the arrival of
\* responses interleave, a manager with syncEnabled true holds a credential in
\* memory and in localStorage.
C35_EnabledHoldsCredential ==
    \A d \in Devices :
       mgr[d].syncEnabled =>
          (mgr[d].token # NoToken /\ ls[d].rfcp_github_token # NoToken)

\* C36: once disable() has returned and as long as no setupSync() starts (the
\* manager holds no credential in memory: setupSync assigns one in its first
\* step, and only disable() takes it away), neither the credential nor the
\* cached document id is in localStorage, also when a call was awaiting a
\* response at the time of the disable().
C36_DisabledStaysUnbound ==
    \A d \in Devices :
       mgr[d].token = NoToken =>
          (ls[d].rfcp_github_token = NoToken /\ ls[d].rfcp_gist_id = NoGist)

(***************************************************************************)
(* What a sync() leaves in the remote document.                            *)
(***************************************************************************)
\* the step in which the write of sync() call c is accepted and the call returns
SyncWritten(c) ==
    /\ call[c].op = "sync" /\ call[c].pc \in {"srp_patch", "srp_patch2"}
    /\ Ends(c) /\ outcome'.how = "returned"

\* C37: sync() removes no id from the remote document: when a sync(L) has
\* written, the remote completedIds hold every id of the remote data the call
\* fetched and every id of L; an id that was un-completed locally and that
\* the remote document still lists is written back.
C37_SyncRemovesNoId ==
    [][\A c \in Calls :
          SyncWritten(c) =>
             LET written == JSONparse(gists'[call[c].target].content) IN
             /\ IdSet(call[c].remoteData.completedIds) \subseteq IdSet(written.completedIds)
             /\ IdSet(call[c].localData.completedIds) \subseteq IdSet(written.completedIds)]_vars

\* C37 witness: objective B was un-completed locally while the remote document
\* listed it, and the sync of the next change has written A and B
C37_Witness ==
    /\ outcome.how = "returned" /\ outcome.passed
    /\ outcome.localData.completedIds = <<"A">>
    /\ StoredProgress(ls["d1"]).completedIds = <<"A">>
    /\ IdSet(JSONparse(gists[1].content).completedIds) = {"A", "B"}

(***************************************************************************)
(* mergeProgress with its arguments exchanged (checked under SpecMerge).   *)
(***************************************************************************)
\* mergeProgress(mRemote, mLocal)
Exchanged == mergeProgress(mRemote, mLocal)

\* both arguments are snapshots and mergeProgress(mLocal, mRemote) was applied
MergedSnapshots == mStage # "input" /\ IsSnapshot(mLocal) /\ IsSnapshot(mRemote)

\* both sides date id i with the same instant, written as two strings
Tie(i) ==
    /\ mLocal.completionDates[i] # NoDate /\ mRemote.completionDates[i] # NoDate
    /\ mLocal.completionDates[i] # mRemote.completionDates[i]
    /\ DateValue(mLocal.completionDates[i]) = DateValue(mRemote.completionDates[i])

\* C38, as stated: for all snapshots A and B, mergeProgress(A, B) and
\* mergeProgress(B, A) have the same set of completedIds and the same
\* completionDates entry for every id, ties included.
C38_MergeCommutes ==
    MergedSnapshots =>
        /\ Returned
        /\ IdSet(mResult.completedIds) = IdSet(Exchanged.completedIds)
        /\ \A i \in Ids : mResult.completionDates[i] = Exchanged.completionDates[i]

\* C38, amended: for all snapshots A and B, mergeProgress(A, B) and
\* mergeProgress(B, A) have the same set of completedIds, date the same ids,
\* and give every id the same instant; the two strings are the same except
\* in a tie, where each result keeps the string of its second argument.
C38_MergeCommutesUpToTies ==
    MergedSnapshots =>
        /\ Returned
        /\ IdSet(mResult.completedIds) = IdSet(Exchanged.completedIds)
        /\ \A i \in Ids :
              IF Tie(i)
              THEN /\ mResult.completionDates[i] = mRemote.completionDates[i]
                   /\ Exchanged.completionDates[i] = mLocal.completionDates[i]
                   /\ DateValue(mResult.completionDates[i]) =
                         DateValue(Exchanged.completionDates[i])
              ELSE mResult.completionDates[i] = Exchanged.completionDates[i]

\* C38 witness: A is dated with the same instant in two strings, B is dated
\* later on the local side, and the merge was applied
C38_Witness ==
    /\ MergedSnapshots /\ Returned
    /\ mLocal.completionDates["A"] = "2025-01-01"
    /\ mRemote.completionDates["A"] = "2025-01-01T00:00:00.000Z"
    /\ mLocal.completionDates["B"] = "2025-01-05"
    /\ mRemote.completionDates["B"] = "2025-01-01"
    /\ mResult.completionDates["A"] = "2025-01-01T00:00:00.000Z"
    /\ Exchanged.completionDates["A"] = "2025-01-01"
    /\ Exchanged.completionDates["B"] = "2025-01-05"

(***************************************************************************)
(* The sync-settings page of a device: updateUI and the handlers of its    *)
(* controls.  A handler is taken from the click to the end of its awaits;  *)
(* of the requests it sends, the response that decides it is drawn.  The   *)
(* page that was drawn last is the one on the screen.                      *)
(***************************************************************************)
\* updateUI(): which controls the page lets the user use, given getStatus()
updateUI(status) ==
    IF status.rateLimitedUntil # NoISO
    THEN [enable |-> FALSE, forceUpload |-> FALSE, forceDownload |-> FALSE,
          disable |-> status.enabled]
    ELSE IF status.enabled
    THEN [enable |-> FALSE, forceUpload |-> TRUE, forceDownload |-> TRUE,
          disable |-> TRUE]
    ELSE [enable |-> TRUE, forceUpload |-> FALSE, forceDownload |-> FALSE,
          disable |-> FALSE]

\* the page of device d as updateUI() draws it at time t
Render(d, m, t) ==
    [NoOutcome EXCEPT !.how = "ui", !.dev = d, !.status = getStatus(m),
                      !.ui = updateUI(getStatus(m)), !.at = t]

\* the page of device d is on the screen
Rendered(d) == outcome.how = "ui" /\ outcome.dev = d

\* the page is loaded: new SyncManager(), then updateUI()
LoadPage(d) ==
    /\ mgr' = [mgr EXCEPT ![d] = Constructor(ls[d])]
    /\ outcome' = Render(d, Constructor(ls[d]), now)
    /\ UNCHANGED <<ls, gists, now, call, mergeVars>>

\* forceSyncFromLocal() or forceSyncFromRemote(), from the call to its end,
\* given the response r to its request
Forced(m, s, r, t) ==
    IF ForceGuard(m) THEN MS(m, s)
    ELSE IF r = Ok
    THEN LET ms == ClearRateLimit(m, s) IN MS([ms.m EXCEPT !.lastSync = t], ms.s)
    ELSE AfterFailure(m, s, r)

\* setupSync(token), from the call to its end, given the response r that
\* decides its locator
SetUp(m, s, token, r) ==
    IF r = Ok
    THEN LET ms == ClearRateLimit(m, s) IN
         MS([ms.m EXCEPT !.token = token, !.gistId = 1, !.syncEnabled = TRUE],
            [ms.s EXCEPT !.rfcp_github_token = token, !.rfcp_gist_id = 1])
    ELSE LET ms == AfterFailure(m, s, r) IN
         MS(disable(ms.m), disableStorage(ms.s))

\* the form is submitted: setupSync, updateUI, then the upload of the local
\* progress; a failure shows an alert and leaves the page as it is
ClickEnable(d, r1, r2) ==
    /\ Rendered(d) /\ outcome.ui.enable
    /\ LET set == SetUp(mgr[d], ls[d], Token, r1)
           up == Forced(set.m, set.s, r2, now)
       IN  IF r1 = Ok
           THEN /\ mgr' = [mgr EXCEPT ![d] = up.m]
                /\ ls' = [ls EXCEPT ![d] = up.s]
                /\ outcome' = Render(d, set.m, now)
           ELSE /\ mgr' = [mgr EXCEPT ![d] = set.m]
                /\ ls' = [ls EXCEPT ![d] = set.s]
                /\ outcome' = outcome
    /\ UNCHANGED <<gists, now, call, mergeVars>>

\* one of the force buttons is clicked: the transfer, then updateUI if it
\* succeeded
ClickForce(d, button, r) ==
    /\ Rendered(d) /\ outcome.ui[button]
    /\ LET end == Forced(mgr[d], ls[d], r, now) IN
          /\ mgr' = [mgr EXCEPT ![d] = end.m]
          /\ ls' = [ls EXCEPT ![d] = end.s]
          /\ outcome' = IF r = Ok /\ ~ForceGuard(mgr[d])
                        THEN Render(d, end.m, now) ELSE outcome
    /\ UNCHANGED <<gists, now, call, mergeVars>>

\* the disable button is clicked: disable(), then updateUI
ClickDisable(d) ==
    /\ Rendered(d) /\ outcome.ui.disable
    /\ mgr' = [mgr EXCEPT ![d] = disable(mgr[d])]
    /\ ls' = [ls EXCEPT ![d] = disableStorage(ls[d])]
    /\ outcome' = Render(d, disable(mgr[d]), now)
    /\ UNCHANGED <<gists, now, call, mergeVars>>

\* the storage of each device before its page is opened: bound or not, with
\* or without a recorded reset time
InitUI ==
    /\ now = 0
    /\ gists = [g \in GistIds |->
                  IF g = 1
                  THEN [state |-> "live", content |-> JSONstringify(initialData(0))]
                  ELSE NoGistEntry]
    /\ \E enabled \in [Devices -> BOOLEAN], until \in [Devices -> {NoTime, 1}] :
          ls = [d \in Devices |->
                  [EmptyStorage EXCEPT
                      !.rfcp_gist_id = IF enabled[d] THEN 1 ELSE NoGist,
                      !.rfcp_github_token = IF enabled[d] THEN Token ELSE NoToken,
                      !.rfcp_rate_limited_until =
                          IF until[d] = NoTime THEN NoISO ELSE toISOString(until[d])]]
    /\ mgr = [d \in Devices |-> Constructor(ls[d])]
    /\ call = [c \in Calls |-> IdleCall]
    /\ outcome = NoOutcome
    /\ MergeIdle

NextUI ==
    \/ \E d \in Devices : LoadPage(d)
    \/ \E d \in Devices, r1, r2 \in Failures(now) \cup {Ok} : ClickEnable(d, r1, r2)
    \/ \E d \in Devices, button \in {"forceUpload", "forceDownload"},
          r \in Failures(now) \cup {Ok} : ClickForce(d, button, r)
    \/ \E d \in Devices : ClickDisable(d)
    \/ Tick

SpecUI == InitUI /\ [][NextUI]_vars

\* the page lets the user start a remote action: setup, upload or download
Permits(ui) == ui.enable \/ ui.forceUpload \/ ui.forceDownload

\* C39: a recorded rate limit does not block the user for good: a page that
\* is drawn when the recorded reset time has passed lets the user start at
\* least one remote action (setup, forced upload or forced download), also
\* when sync is disabled and when the page was loaded anew.
C39_LimitDoesNotBlockForGood ==
    \A d \in Devices :
       (/\ Rendered(d) /\ outcome.at = now
        /\ mgr[d].rateLimitedUntil # NoTime
        /\ ~IsLimited(mgr[d], now)) => Permits(outcome.ui)

(***************************************************************************)
(* Two devices that no longer change their progress: both are bound to the *)
(* live document, every page load syncs the stored progress and stores the *)
(* result (loadProgress of main.js), and no two calls overlap.             *)
(***************************************************************************)
\* what the two devices hold when they stop changing their progress
QuietLocals ==
    {[d \in Devices |->
        IF d = "d1" THEN Snapshot(<<"A">>, [NoDates EXCEPT !["A"] = "2025-01-01"])
        ELSE other] :
     other \in {Snapshot(<<"B">>, [NoDates EXCEPT !["B"] = "2025-01-05"]),
                Snapshot(<<"B", "A">>,
                         [NoDates EXCEPT !["A"] = "2025-01-01T00:00:00.000Z",
                                         !["B"] = "2025-01-01"])}}

\* what the remote document holds at that time
QuietRemotes ==
    {EmptySnapshot,
     Snapshot(<<"B">>, [NoDates EXCEPT !["B"] = "2025-01-05"]),
     Snapshot(<<"B">>, [NoDates EXCEPT !["B"] = "2025-01-01T00:00:00.000Z"])}

InitQuiet ==
    /\ now = 0
    /\ \E remote \in QuietRemotes :
          gists = [g \in GistIds |->
                     IF g = 1
                     THEN [state |-> "live",
                           content |-> JSONstringify(dataWithTimestamp(remote, 0))]
                     ELSE NoGistEntry]
    /\ \E local \in QuietLocals :
          ls = [d \in Devices |->
                  [EmptyStorage EXCEPT
                      !.rfcp_gist_id = 1, !.rfcp_github_token = Token,
                      !.rfcpProgressv2 = JSONstringify(local[d])]]
    /\ mgr = [d \in Devices |-> Constructor(ls[d])]
    /\ call = [c \in Calls |-> IdleCall]
    /\ outcome = NoOutcome
    /\ MergeIdle

\* the page of device d is loaded while no call is under way: loadProgress
\* syncs the stored progress and stores what sync() returned
SyncAndPersist(d) ==
    /\ PageIdle
    /\ \E c \in Calls : DeviceOf(c) = d /\ LoadProgressCall(c, d, "loadProgress")

NextQuiet ==
    \/ \E d \in Devices : SyncAndPersist(d)
    \/ \E c \in Calls : ResponseOk(c)
    \/ \E c \in Calls : Forget(c)

\* every request is answered, every ended call is dropped, and each device
\* goes on loading its page
SpecQuiet ==
    /\ InitQuiet /\ [][NextQuiet]_vars
    /\ WF_vars(\E c \in Calls : ResponseOk(c))
    /\ \A c \in Calls : WF_vars(Forget(c))
    /\ \A d \in Devices : SF_vars(SyncAndPersist(d))

\* the three copies of the progress: the remote document and the stored copy
\* of each device
Holders == Devices \cup {"remote"}

Held(h, stored, docs) ==
    IF h = "remote" THEN JSONparse(docs[1].content) ELSE StoredProgress(stored[h])

\* new Date(date).getTime() of an entry of completionDates; 0 for no entry
InstantOf(date) == IF date = NoDate THEN 0 ELSE DateValue(date)

\* the three copies hold the same ids and the same dates
Agree ==
    \A h \in Holders :
       /\ IdSet(Held(h, ls, gists).completedIds) =
             IdSet(Held("remote", ls, gists).completedIds)
       /\ Held(h, ls, gists).completionDates =
             Held("remote", ls, gists).completionDates

\* every id some copy holds, and the latest instant some copy holds for id i
AllHeldIds(stored, docs) ==
    UNION {IdSet(Held(h, stored, docs).completedIds) : h \in Holders}

LatestHeld(i, stored, docs) ==
    CHOOSE v \in {InstantOf(Held(h, stored, docs).completionDates[i]) : h \in Holders} :
       \A h \in Holders : InstantOf(Held(h, stored, docs).completionDates[i]) <= v

\* a step loses nothing: no copy loses an id or moves a date back, and the
\* union of the ids and the latest date of each id stay what they were
NothingLost ==
    /\ \A h \in Holders :
          /\ IdSet(Held(h, ls, gists).completedIds) \subseteq
                IdSet(Held(h, ls', gists').completedIds)
          /\ \A i \in Ids :
                InstantOf(Held(h, ls, gists).completionDates[i]) <=
                   InstantOf(Held(h, ls', gists').completionDates[i])
    /\ AllHeldIds(ls', gists') = AllHeldIds(ls, gists)
    /\ \A i \in Ids : LatestHeld(i, ls', gists') = LatestHeld(i, ls, gists)

\* C40: two devices that share one remote document, no longer change their
\* progress, store each sync result as their local copy and sync one after
\* the other reach, after finitely many syncs, a state in which the remote
\* document and both local copies hold the same ids and the same dates, and
\* they stay in it; as no step loses an id or a date, what they then hold is
\* the union of the ids and the latest date of every id.
C40_QuietDevicesConverge ==
    /\ [][NothingLost]_vars
    /\ [][Agree => Agree']_vars
    /\ <>[]Agree

\* both devices have synced, the second one after the first, the copies
\* agree and the device that was behind has stored the item of the other
C40_Witness ==
    /\ Agree /\ PageIdle
    /\ outcome.how = "returned" /\ outcome.passed
    /\ IdSet(StoredProgress(ls["d1"]).completedIds) = {"A", "B"}
    /\ StoredProgress(ls["d2"]).completionDates["A"] = "2025-01-01"

====
